---- MODULE Spec2Model ----
(***************************************************************************)
(* The V0 builder task lambdakzeroBuilder of PWGLF: its start-up           *)
(* self-configuration (init), and the staged selection pipeline            *)
(* (buildV0Candidate) driven once per collision by buildStrangenessTables. *)
(*                                                                         *)
(* The source file holds two revisions of the task.  rev = 1 is the first  *)
(* (lines 330-836: six stage counters, DCA obtained by propagation,        *)
(* processRun2/processRun3), rev = 2 the second (lines 1207-1682: seven    *)
(* stage counters with the crossed-rows stage, processRun3associated).     *)
(*                                                                         *)
(* Lengths, DCAs and cosines are floats in the source; the model keeps     *)
(* them as integers in units of 1/1000 (0.995 is 995, 100 is 100000).      *)
(***************************************************************************)
EXTENDS Integers, Sequences, FiniteSets, TLC

VARIABLES
  rev,                \* which revision of the task runs
  pc,                 \* "constructed", "ready", "collision", "loop", "fatal",
                      \* "fatal-ccdb"
  workflow,           \* RunningWorkflowInfo: the devices of the workflow
  opt,                \* the Configurables init never writes
  sel,                \* the five threshold Configurables init may overwrite
  createV0CovMats,    \* Configurable<int>, written by init
  statisticsRegistry, \* v0stats, exceptions, eventCounter
  registry,           \* the monitoring histograms (accumulated weights)
  v0candidate,        \* the scratch struct buildV0Candidate fills
  fitter,             \* the DCA fitter collaborator: calls and throws of this
                      \* batch, its field and the number of setBz calls
  nCollisions,        \* collisions of the input still to be processed
  nV0sInput,          \* V0s of the input that belong to those collisions
  nV0s,               \* number of V0s of the batch being processed
  iV0,                \* number of V0s of the batch already evaluated
  V0,                 \* the loop variable: the V0 evaluated last
  validCandidate,     \* the loop's local: what buildV0Candidate returned last
  v0data,             \* rows given to the v0data cursor by the current call
  v0covs,             \* rows given to the v0covs cursor by the current call
  mRunNumber,         \* the run number the field was last set up for
  d_bz,               \* the magnetic field in use
  lut,                \* the material look-up table pointer
  propagator,         \* o2::base::Propagator: what it was last given
  bcs,                \* bunch crossings of the collisions still to be processed
  straBuilder,        \* the StrangenessBuilder task: its members and position
  straHelper,         \* the strangenessBuilderHelper it owns
  straPropagator,     \* o2::base::Propagator in the StrangenessBuilder's process
  straSubscribed,     \* the tables some device of the workflow takes as input
  nDFs,               \* data frames still to come
  df,                 \* the data frame given to dataProcess last
  recoStudy,          \* the straRecoStudy task: its members and position
  nRecoCalls,         \* process calls of straRecoStudy still to come
  recoCall,           \* what the last process call of straRecoStudy was given
  preselector,        \* the lambdakzeroPreselector task: options and v0tags cursor
  nPreselCalls,       \* process calls of lambdakzeroPreselector still to come
  preselCall,         \* what its last process call was given
  bench,              \* the groupingBenchmarkPresliceUnsorted task
  nBenchDFs,          \* data frames of the benchmark still to come
  benchDF,            \* the data frame given to its process last
  benchNow            \* std::chrono::high_resolution_clock::now()

(* the variables initCCDB works on *)
ccdbVars == <<mRunNumber, d_bz, lut, propagator, bcs>>

(* the variables of the lambdakzeroBuilder task *)
lambdakzeroVars ==
  <<rev, pc, workflow, opt, sel, createV0CovMats, statisticsRegistry,
    registry, v0candidate, fitter, nCollisions, nV0sInput, nV0s,
    iV0, V0, validCandidate, v0data, v0covs, ccdbVars>>

(* the variables of the StrangenessBuilder task *)
straVars ==
  <<straBuilder, straHelper, straPropagator, straSubscribed, nDFs, df>>

(* the variables of the straRecoStudy task *)
recoVars == <<recoStudy, nRecoCalls, recoCall>>

(* the variables of the lambdakzeroPreselector task *)
preselVars == <<preselector, nPreselCalls, preselCall>>

(* the variables of the groupingBenchmarkPresliceUnsorted task *)
benchVars == <<bench, nBenchDFs, benchDF, benchNow>>

(* the variables of the tasks around the builders *)
qcVars == <<recoVars, preselVars, benchVars>>

vars == <<lambdakzeroVars, straVars, qcVars>>

---------------------------------------------------------------------------
(* Bounds of the model *)

MaxV0s == 3
MaxEvents == 2
MaxDevices == 2

---------------------------------------------------------------------------
(* enum v0step; the second revision inserts kV0CrossedRows *)

kV0All == 0
kV0TPCrefit == 1
kV0CrossedRows == 2
kV0DCAxy == IF rev = 1 THEN 2 ELSE 3
kV0DCADau == IF rev = 1 THEN 3 ELSE 4
kV0CosPA == IF rev = 1 THEN 4 ELSE 5
kV0Radius == IF rev = 1 THEN 5 ELSE 6
kNV0Steps == IF rev = 1 THEN 6 ELSE 7

Steps == 0 .. (kNV0Steps - 1)

(* Starting values of the running extrema in init: 100 and -100 *)
LoosestMinStart == 100000
LoosestMaxStart == -100000

(* Defaults of the threshold Configurables *)
DefaultSel ==
  [dcanegtopv |-> 100, dcapostopv |-> 100, v0cospa |-> 995,
   dcav0dau |-> 1000, v0radius |-> 900]

(* A user configuration that differs from the defaults *)
CustomSel ==
  [dcanegtopv |-> 80, dcapostopv |-> 70, v0cospa |-> 970,
   dcav0dau |-> 1200, v0radius |-> 600]

Default_mincrossedrows == 70

(* d_bz: -999 is automatic *)
Default_d_bz_input == -999000

---------------------------------------------------------------------------
(* The workflow init scans: DeviceSpec name, inputs (bindings), options *)

Option(n, v) == [name |-> n, defaultValue |-> v]

Device(n, in, o) == [name |-> n, inputs |-> in, options |-> o]

(* straRecoStudy's declared defaults *)
OptStraRecoStudy ==
  << Option("v0setting_cospa", 950), Option("v0setting_dcav0dau", 1000),
     Option("v0setting_dcapostopv", 100), Option("v0setting_dcanegtopv", 100),
     Option("v0setting_radius", 900), Option("mincrossedrows", 70) >>

OptLoose ==
  << Option("v0setting_radius", 500), Option("v0setting_cospa", 900),
     Option("v0setting_dcanegtopv", 60), Option("v0setting_dcapostopv", 50),
     Option("v0setting_dcav0dau", 1500), Option("mincrossedrows", 50) >>

OptVeryLoose ==
  << Option("v0setting_cospa", 800), Option("v0setting_dcav0dau", 3000),
     Option("v0setting_dcapostopv", 10), Option("v0setting_dcanegtopv", 20),
     Option("v0setting_radius", 100) >>

(* asks for a minimum radius above the starting value of the running minimum *)
OptFarRadius ==
  << Option("v0setting_radius", 150000), Option("v0setting_cospa", 990),
     Option("v0setting_dcav0dau", 800), Option("v0setting_dcapostopv", 120),
     Option("v0setting_dcanegtopv", 130) >>

(* declares the radius alone *)
OptRadiusOnly == << Option("v0setting_radius", 700) >>

DeviceUniverse ==
  { Device("stra-reco-study", << "V0Datas" >>, OptStraRecoStudy),
    Device("v0-analysis", << "V0Datas", "V0Covs" >>, OptLoose),
    Device("v0-qa", << "Tracks", "V0Datas" >>, OptFarRadius),
    Device("multistrange-builder", << "V0Datas" >>, OptVeryLoose),
    Device("lambdakzero-initializer", << "V0Datas", "V0Covs" >>, OptVeryLoose),
    Device("cov-reader", << "V0Covs" >>, OptVeryLoose),
    Device("v0-radius-study", << "V0Datas" >>, OptRadiusOnly),
    Device("track-propagation", << "Tracks" >>, << >>) }

Workflows ==
  UNION { [1 .. n -> DeviceUniverse] : n \in 0 .. MaxDevices }

---------------------------------------------------------------------------
(* Values left in memory nobody has written yet *)

Garbage == 7000 + 777

Abs(x) == IF x < 0 THEN 0 - x ELSE x

---------------------------------------------------------------------------
(* statisticsRegistry and the histogram registry *)

(* a reset whose loop over the stage counters starts at 1 *)
resetHistos_from1(reg) ==
  [v0stats |-> [ii \in Steps |-> IF ii = 0 THEN reg.v0stats[ii] ELSE 0],
   exceptions |-> 0, eventCounter |-> 0]

resetHistos(reg) ==
  [v0stats |-> [ii \in Steps |-> 0], exceptions |-> 0, eventCounter |-> 0]

NBinsV0Criteria == 10

fillV0Criteria(h, reg) ==
  [ii \in 0 .. (NBinsV0Criteria - 1) |->
     IF ii \in Steps THEN h[ii] + reg.v0stats[ii] ELSE h[ii]]

(* a flush skipped when the batch has no accepted candidate *)
fillHistos_ifAccepted(h, reg) ==
  IF reg.v0stats[kNV0Steps - 1] = 0 THEN h
  ELSE [hEventCounter |-> h.hEventCounter + reg.eventCounter,
        hCaughtExceptions |-> h.hCaughtExceptions + reg.exceptions,
        hV0Criteria |-> fillV0Criteria(h.hV0Criteria, reg)]

fillHistos(h, reg) ==
  [hEventCounter |-> h.hEventCounter + reg.eventCounter,
   hCaughtExceptions |-> h.hCaughtExceptions + reg.exceptions,
   hV0Criteria |-> fillV0Criteria(h.hV0Criteria, reg)]

EmptyRegistry ==
  [hEventCounter |-> 0, hCaughtExceptions |-> 0,
   hV0Criteria |-> [ii \in 0 .. (NBinsV0Criteria - 1) |-> 0]]

---------------------------------------------------------------------------
(* init: the process-switch checks *)

(* the switch checks of the first revision kept for the second *)
initFatal_run2run3only ==
  \/ (opt.doprocessRun2 = FALSE /\ opt.doprocessRun3 = FALSE
       /\ opt.doprocessRun3associated = FALSE)
  \/ (opt.doprocessRun2 = TRUE /\ opt.doprocessRun3 = TRUE)

initFatal ==
  IF rev = 1
  THEN \/ (opt.doprocessRun2 = FALSE /\ opt.doprocessRun3 = FALSE)
       \/ (opt.doprocessRun2 = TRUE /\ opt.doprocessRun3 = TRUE)
  ELSE \/ (opt.doprocessRun2 = FALSE /\ opt.doprocessRun3 = FALSE
            /\ opt.doprocessRun3associated = FALSE)
       \/ (opt.doprocessRun2 = TRUE /\ opt.doprocessRun3 = TRUE)
       \/ (opt.doprocessRun2 = TRUE /\ opt.doprocessRun3associated = TRUE)
       \/ (opt.doprocessRun3 = TRUE /\ opt.doprocessRun3associated = TRUE)

---------------------------------------------------------------------------
(* init: the self-configuration scan.  acc holds the five running extrema   *)
(* loosest_* and createV0CovMats.                                           *)

scanStart(covs) ==
  [loosest_v0cospa |-> LoosestMinStart, loosest_dcav0dau |-> LoosestMaxStart,
   loosest_dcapostopv |-> LoosestMinStart, loosest_dcanegtopv |-> LoosestMinStart,
   loosest_radius |-> LoosestMinStart, createV0CovMats |-> covs]

(* a running minimum that keeps the larger value *)
foldMin_keepsLarger(detected, loosest) ==
  IF detected > loosest THEN detected ELSE loosest

foldMin(detected, loosest) == IF detected < loosest THEN detected ELSE loosest

foldMax(detected, loosest) == IF detected > loosest THEN detected ELSE loosest

scanOption(acc, option) ==
  LET a1 == IF option.name = "v0setting_cospa"
            THEN [acc EXCEPT !.loosest_v0cospa = foldMin(option.defaultValue, @)]
            ELSE acc
      a2 == IF option.name = "v0setting_dcav0dau"
            THEN [a1 EXCEPT !.loosest_dcav0dau = foldMax(option.defaultValue, @)]
            ELSE a1
      a3 == IF option.name = "v0setting_dcapostopv"
            THEN [a2 EXCEPT !.loosest_dcapostopv = foldMin(option.defaultValue, @)]
            ELSE a2
      a4 == IF option.name = "v0setting_dcanegtopv"
            THEN [a3 EXCEPT !.loosest_dcanegtopv = foldMin(option.defaultValue, @)]
            ELSE a3
  IN IF option.name = "v0setting_radius"
     THEN [a4 EXCEPT !.loosest_radius = foldMin(option.defaultValue, @)]
     ELSE a4

RECURSIVE scanOptions(_, _)
scanOptions(acc, options) ==
  IF options = << >> THEN acc
  ELSE scanOptions(scanOption(acc, Head(options)), Tail(options))

(* does the scan read the options of this device for this input? *)
listensTo(device, binding) ==
  binding = "V0Datas" /\ device.name # "multistrange-builder"

scanInput(acc, device, binding) ==
  IF device.name = "lambdakzero-initializer" THEN acc
  ELSE LET a1 == IF listensTo(device, binding)
                 THEN scanOptions(acc, device.options) ELSE acc
       IN IF binding = "V0Covs" THEN [a1 EXCEPT !.createV0CovMats = 1] ELSE a1

RECURSIVE scanInputs(_, _, _)
scanInputs(acc, device, inputs) ==
  IF inputs = << >> THEN acc
  ELSE scanInputs(scanInput(acc, device, Head(inputs)), device, Tail(inputs))

RECURSIVE scanDevices(_, _)
scanDevices(acc, devices) ==
  IF devices = << >> THEN acc
  ELSE scanDevices(scanInputs(acc, Head(devices), Head(devices).inputs),
                   Tail(devices))

(* the assignments that end the auto-detect block *)
applyLoosest(acc) ==
  [dcanegtopv |-> acc.loosest_dcanegtopv, dcapostopv |-> acc.loosest_dcapostopv,
   v0cospa |-> acc.loosest_v0cospa, dcav0dau |-> acc.loosest_dcav0dau,
   v0radius |-> acc.loosest_radius]

(* a self-configuration that runs whatever d_UseAutodetectMode says *)
configure_always(s, covs) ==
  LET acc == scanDevices(scanStart(covs), workflow)
  IN [sel |-> applyLoosest(acc), createV0CovMats |-> acc.createV0CovMats]

(* the auto-detect block: what the thresholds and createV0CovMats become *)
configure(s, covs) ==
  IF opt.d_UseAutodetectMode
  THEN LET acc == scanDevices(scanStart(covs), workflow)
       IN [sel |-> applyLoosest(acc), createV0CovMats |-> acc.createV0CovMats]
  ELSE [sel |-> s, createV0CovMats |-> covs]

init ==
  /\ pc = "constructed"
  /\ statisticsRegistry' = resetHistos(statisticsRegistry)
  /\ IF initFatal
     THEN /\ pc' = "fatal"
          /\ UNCHANGED <<sel, createV0CovMats>>
     ELSE /\ pc' = "ready"
          /\ sel' = configure(sel, createV0CovMats).sel
          /\ createV0CovMats' = configure(sel, createV0CovMats).createV0CovMats
  /\ mRunNumber' = 0
  /\ d_bz' = 0
  /\ lut' = IF rev = 2 \/ opt.useMatCorrType = 2 THEN "MatLUT" ELSE lut
  /\ UNCHANGED <<rev, workflow, opt, registry, v0candidate, fitter, nCollisions,
                 nV0sInput, nV0s, iV0, V0, validCandidate, v0data, v0covs,
                 propagator, bcs>>
  /\ UNCHANGED straVars
  /\ UNCHANGED qcVars

---------------------------------------------------------------------------
(* The V0s of the input.  A V0 carries what the task reads from its two     *)
(* daughter tracks and what the fitter collaborator answers for the pair:   *)
(* fit is "throw" (process throws), "zero" (no candidate) or "ok", and pca  *)
(* holds the values read back from the fitter after a successful fit.       *)
(* posProp/negProp tell whether propagateToDCABxByBz succeeds for the       *)
(* daughter (first revision only: the second reads dcaXY() from the track   *)
(* table), and dcaInfo is what the uninitialized local array of that name   *)
(* happens to hold when the call starts.                                    *)

GoodA ==
  [posRefit |-> TRUE, negRefit |-> TRUE, posRows |-> 90, negRows |-> 80,
   posDCAxy |-> 200, negDCAxy |-> -300,
   posProp |-> TRUE, negProp |-> TRUE, dcaInfo |-> 0, fit |-> "ok",
   pca |-> [posTrackX |-> 11, negTrackX |-> 12, pos |-> 13, posP |-> 14,
            negP |-> 15, dcaV0dau |-> 400, cosPA |-> 999, V0radius |-> 2000]]

GoodB ==
  [posRefit |-> TRUE, negRefit |-> TRUE, posRows |-> 75, negRows |-> 70,
   posDCAxy |-> -250, negDCAxy |-> 150,
   posProp |-> TRUE, negProp |-> TRUE, dcaInfo |-> 0, fit |-> "ok",
   pca |-> [posTrackX |-> 21, negTrackX |-> 22, pos |-> 23, posP |-> 24,
            negP |-> 25, dcaV0dau |-> 100, cosPA |-> 998, V0radius |-> 5000]]

V0Universe ==
  { GoodA, GoodB,
    [GoodA EXCEPT !.negRefit = FALSE],      \* no TPC refit on one daughter
    [GoodA EXCEPT !.posRows = 60],          \* too few crossed rows
    [GoodA EXCEPT !.negDCAxy = -70],        \* negative daughter close to the PV
    [GoodB EXCEPT !.posDCAxy = 30],         \* positive daughter close to the PV
    [GoodA EXCEPT !.fit = "throw"],         \* the fitter throws
    [GoodB EXCEPT !.fit = "zero"],          \* the fitter finds no candidate
    [GoodA EXCEPT !.pca.dcaV0dau = 1200],   \* daughters far apart
    [GoodA EXCEPT !.pca.cosPA = 930],       \* does not point to the PV
    [GoodB EXCEPT !.pca.V0radius = 700],    \* decays close to the beam axis
    [GoodB EXCEPT !.posDCAxy = 100],        \* DCA equal to straRecoStudy's minimum
    [GoodB EXCEPT !.pca.V0radius = 900] }   \* radius equal to straRecoStudy's minimum

(* V0s with a daughter that cannot be propagated to the primary vertex *)
PropagationFailures ==
  { [GoodA EXCEPT !.posProp = FALSE],
    [GoodA EXCEPT !.posProp = FALSE, !.dcaInfo = Garbage],
    [GoodA EXCEPT !.negProp = FALSE] }

V0sOf(r) == IF r = 1 THEN V0Universe \cup PropagationFailures ELSE V0Universe

NoV0 ==
  [posRefit |-> FALSE, negRefit |-> FALSE, posRows |-> 0, negRows |-> 0,
   posDCAxy |-> 0, negDCAxy |-> 0,
   posProp |-> TRUE, negProp |-> TRUE, dcaInfo |-> 0, fit |-> "zero",
   pca |-> [posTrackX |-> 0, negTrackX |-> 0, pos |-> 0, posP |-> 0,
            negP |-> 0, dcaV0dau |-> 0, cosPA |-> 0, V0radius |-> 0]]

---------------------------------------------------------------------------
(* initCCDB: the magnetic field and the material look-up table.  Fields are *)
(* in kG, in units of 1/1000 like the other floats; L3 currents are in A.   *)

MaxRuns == 3

Sign(x) == IF x < 0 THEN -1 ELSE 1

(* a pointer the CCDB gives back *)
Null == [null |-> TRUE, value |-> 0]

Object(v) == [null |-> FALSE, value |-> v]

(* ccdb->getForTimeStamp<GRPObject>: the nominal L3 field, where there is one *)
GRPObjectOf(run) ==
  CASE run = 0 -> Object(-5) [] run = 1 -> Object(5) [] OTHER -> Null

(* ccdb->getForTimeStamp<GRPMagField>: the L3 current, where there is one *)
GRPMagFieldOf(run) ==
  CASE run = 2 -> Object(30000) [] run = 3 -> Null [] OTHER -> Object(-12000)

BC(run) ==
  [runNumber |-> run, grpo |-> GRPObjectOf(run), grpmag |-> GRPMagFieldOf(run)]

NewFitter == [calls |-> 0, throws |-> 0, bz |-> 0, setBz |-> 0]

NoGRP == [kind |-> "none", value |-> 0, inf |-> FALSE]

NewPropagator ==
  [grp |-> NoGRP, nInitField |-> 0, matLUT |-> "unset", nSetMatLUT |-> 0,
   nToDCA |-> 0]

setBz(fit, bz) == [fit EXCEPT !.bz = bz, !.setBz = @ + 1]

initFieldFromGRP(prop, grp) == [prop EXCEPT !.grp = grp, !.nInitField = @ + 1]

setMatLUT(prop, l) == [prop EXCEPT !.matLUT = l, !.nSetMatLUT = @ + 1]

(* float division a / (b / 1000): infinite when b is zero *)
fdiv(a, b) ==
  [kind |-> "GRPMagField",
   value |-> IF b = 0 THEN 0 ELSE Sign(b) * ((1000 * a) \div Abs(b)),
   inf |-> (b = 0)]

(* the GRPMagField of the override with the division left unguarded *)
overrideGRPMagField_unguarded(bz) == fdiv(30000 * 5, bz)

(* the GRPMagField the override builds: setL3Current(30000 / (d_bz / 5))    *)
(* unless fabs(d_bz) <= 1e-5, which leaves the current at its initial 0      *)
overrideGRPMagField(bz) ==
  IF Abs(bz) * 100 > 1 THEN fdiv(30000 * 5, bz)
  ELSE [kind |-> "GRPMagField", value |-> 0, inf |-> FALSE]

(* std::lround(5.f * current / 30000.f), in 1/1000 kG *)
lroundField(current) ==
  1000 * Sign(current) * ((10 * Abs(current) + 30000) \div 60000)

(* an early return that never finds the run number unchanged *)
sameRun_never(bc) == FALSE

sameRun(bc) == mRunNumber = bc.runNumber

CCDBState == [fatal |-> FALSE, mRunNumber |-> mRunNumber, d_bz |-> d_bz,
              fitter |-> fitter, propagator |-> propagator]

(* the override of the first revision: no CCDB access *)
initCCDB_override(bc) ==
  [CCDBState EXCEPT
     !.d_bz = opt.d_bz_input,
     !.fitter = setBz(fitter, opt.d_bz_input),
     !.propagator = initFieldFromGRP(propagator,
                                     overrideGRPMagField(opt.d_bz_input)),
     !.mRunNumber = bc.runNumber]

(* the field as the CCDB knows it; automatic tells whether d_bz follows it *)
initCCDB_fetch(bc, automatic) ==
  IF ~ bc.grpo.null
  THEN [CCDBState EXCEPT
          !.propagator = initFieldFromGRP(propagator,
                           [kind |-> "GRPObject", value |-> bc.grpo.value,
                            inf |-> FALSE]),
          !.d_bz = IF automatic THEN 1000 * bc.grpo.value ELSE opt.d_bz_input]
  ELSE IF bc.grpmag.null
  THEN [CCDBState EXCEPT !.fatal = TRUE]
  ELSE [CCDBState EXCEPT
          !.propagator = initFieldFromGRP(propagator,
                           [kind |-> "GRPMagField", value |-> bc.grpmag.value,
                            inf |-> FALSE]),
          !.d_bz = IF automatic THEN lroundField(bc.grpmag.value)
                   ELSE opt.d_bz_input]

initCCDB_first(bc) ==
  IF sameRun(bc) THEN CCDBState
  ELSE IF opt.d_bz_input > -990000 THEN initCCDB_override(bc)
  ELSE LET s == initCCDB_fetch(bc, TRUE)
       IN IF s.fatal THEN s
          ELSE [s EXCEPT
                  !.mRunNumber = bc.runNumber,
                  !.fitter = setBz(fitter, s.d_bz),
                  !.propagator = IF opt.useMatCorrType = 2
                                 THEN setMatLUT(s.propagator, lut)
                                 ELSE s.propagator]

initCCDB_second(bc) ==
  IF sameRun(bc) THEN CCDBState
  ELSE LET s == initCCDB_fetch(bc, opt.d_bz_input < -990000)
       IN IF s.fatal THEN s
          ELSE [s EXCEPT
                  !.propagator = setMatLUT(s.propagator, lut),
                  !.mRunNumber = bc.runNumber,
                  !.fitter = setBz(fitter, s.d_bz)]

(* process: "Fire up CCDB" for the next collision of the input *)
initCCDB ==
  /\ pc = "ready"
  /\ bcs # << >>
  /\ LET s == IF rev = 1 THEN initCCDB_first(Head(bcs))
              ELSE initCCDB_second(Head(bcs))
     IN /\ pc' = IF s.fatal THEN "fatal-ccdb" ELSE "collision"
        /\ mRunNumber' = s.mRunNumber
        /\ d_bz' = s.d_bz
        /\ fitter' = s.fitter
        /\ propagator' = s.propagator
  /\ bcs' = Tail(bcs)
  /\ UNCHANGED <<rev, workflow, opt, sel, createV0CovMats, statisticsRegistry,
                 registry, v0candidate, nCollisions, nV0sInput, nV0s, iV0, V0,
                 validCandidate, v0data, v0covs, lut>>
  /\ UNCHANGED straVars
  /\ UNCHANGED qcVars

---------------------------------------------------------------------------
(* buildV0Candidate, stage by stage *)

(* a stage counter bumped twice *)
count_twice(reg, k) == [reg EXCEPT !.v0stats[k] = @ + 2]

count(reg, k) == [reg EXCEPT !.v0stats[k] = @ + 1]

passesTPCrefit(v) ==
  IF opt.tpcrefit # 0 THEN v.posRefit /\ v.negRefit ELSE TRUE

passesCrossedRows(v) ==
  ~ (v.posRows < opt.mincrossedrows \/ v.negRows < opt.mincrossedrows)

(* propagateToDCABxByBz(..., &dcaInfo): writes the DCA on success; its      *)
(* result is not looked at, and on failure the array is left as it was      *)
propagateToDCABxByBz(ok, dca, dcaInfo) == IF ok THEN dca ELSE dcaInfo

(* the DCA the builder obtains for each daughter *)
posTrackdcaXY(v) ==
  IF rev = 1 THEN propagateToDCABxByBz(v.posProp, v.posDCAxy, v.dcaInfo)
  ELSE v.posDCAxy

negTrackdcaXY(v) ==
  IF rev = 1 THEN propagateToDCABxByBz(v.negProp, v.negDCAxy, posTrackdcaXY(v))
  ELSE v.negDCAxy

(* a prefilter that looks at the positive daughter alone *)
passesDCAxy_posOnly(v) == ~ (Abs(posTrackdcaXY(v)) < sel.dcapostopv)

passesDCAxy(v) ==
  ~ (Abs(posTrackdcaXY(v)) < sel.dcapostopv
       \/ Abs(negTrackdcaXY(v)) < sel.dcanegtopv)

passesDCADau(cand) == ~ (cand.dcaV0dau > sel.dcav0dau)

passesCosPA(cand) == ~ (cand.cosPA < sel.v0cospa)

(* a radius cut that lets everything through *)
passesRadius_always(cand) == TRUE

passesRadius(cand) == ~ (cand.V0radius < sel.v0radius)

(* the fitter collaborator is asked to process a pair *)
fitterProcess(fit, v) ==
  [fit EXCEPT !.calls = @ + 1,
              !.throws = IF v.fit = "throw" THEN @ + 1 ELSE @]

(* a catch block that swallows the exception without counting it *)
catchException_uncounted(reg) == reg

(* the catch block around fitter.process *)
catchException(reg) == [reg EXCEPT !.exceptions = @ + 1]


(* a read-back that leaves the track positions of the scratch struct alone *)
readFit_partial(cand, v) ==
  [cand EXCEPT !.posP = v.pca.posP, !.negP = v.pca.negP, !.pos = v.pca.pos,
               !.dcaV0dau = v.pca.dcaV0dau]

(* what is read back from the fitter after a successful process call *)
readFit(cand, v) ==
  [cand EXCEPT !.posTrackX = v.pca.posTrackX, !.negTrackX = v.pca.negTrackX,
               !.posP = v.pca.posP, !.negP = v.pca.negP, !.pos = v.pca.pos,
               !.dcaV0dau = v.pca.dcaV0dau]

Return(ret, reg, cand, fit) ==
  [ret |-> ret, reg |-> reg, cand |-> cand, fit |-> fit]

(* the DCA-between-daughters stage bumping the counter of the next stage *)
selectFitted_wrongCounter(v, reg, cand, fit) ==
  IF ~ passesDCADau(cand) THEN Return(FALSE, reg, cand, fit)
  ELSE LET r1 == count(reg, kV0CosPA)
           c1 == [cand EXCEPT !.cosPA = v.pca.cosPA]
       IN IF ~ passesCosPA(c1) THEN Return(FALSE, r1, c1, fit)
          ELSE LET r2 == count(r1, kV0CosPA)
                   c2 == [c1 EXCEPT !.V0radius = v.pca.V0radius]
               IN IF ~ passesRadius(c2) THEN Return(FALSE, r2, c2, fit)
                  ELSE Return(TRUE, count(r2, kV0Radius), c2, fit)

(* after the vertex fit: DCA between daughters, pointing angle, radius *)
selectFitted(v, reg, cand, fit) ==
  IF ~ passesDCADau(cand) THEN Return(FALSE, reg, cand, fit)
  ELSE LET r1 == count(reg, kV0DCADau)
           c1 == [cand EXCEPT !.cosPA = v.pca.cosPA]
       IN IF ~ passesCosPA(c1) THEN Return(FALSE, r1, c1, fit)
          ELSE LET r2 == count(r1, kV0CosPA)
                   c2 == [c1 EXCEPT !.V0radius = v.pca.V0radius]
               IN IF ~ passesRadius(c2) THEN Return(FALSE, r2, c2, fit)
                  ELSE Return(TRUE, count(r2, kV0Radius), c2, fit)

(* a fit without candidates treated like a thrown exception *)
fitV0_zeroCounted(v, reg, cand, fit) ==
  LET f1 == fitterProcess(fit, v)
  IN IF v.fit = "throw" THEN Return(FALSE, catchException(reg), cand, f1)
     ELSE IF v.fit = "zero" THEN Return(FALSE, catchException(reg), cand, f1)
     ELSE selectFitted(v, reg, readFit(cand, v), f1)

(* the vertex fit *)
fitV0(v, reg, cand, fit) ==
  LET f1 == fitterProcess(fit, v)
  IN IF v.fit = "throw" THEN Return(FALSE, catchException(reg), cand, f1)
     ELSE IF v.fit = "zero" THEN Return(FALSE, reg, cand, f1)
     ELSE selectFitted(v, reg, readFit(cand, v), f1)

(* the DCA-to-primary-vertex stage and what follows *)
selectDCAxy(v, reg, cand, fit) ==
  IF ~ passesDCAxy(v) THEN Return(FALSE, reg, cand, fit)
  ELSE fitV0(v, count(reg, kV0DCAxy),
             [cand EXCEPT !.posDCAxy = posTrackdcaXY(v),
                          !.negDCAxy = negTrackdcaXY(v)],
             fit)


(* a builder that propagates the daughters before it tests the TPC refit *)
propagateDaughters_first(prop, v) ==
  IF rev = 1 THEN [prop EXCEPT !.nToDCA = @ + 2] ELSE prop

(* the two propagateToDCABxByBz calls of the first revision, made once the *)
(* TPC refit test is passed; the second revision reads track.dcaXY()        *)
propagateDaughters(prop, v) ==
  IF rev = 1 /\ passesTPCrefit(v) THEN [prop EXCEPT !.nToDCA = @ + 2] ELSE prop

buildV0Candidate(v, reg, cand, fit) ==
  LET r0 == count(reg, kV0All)
  IN IF ~ passesTPCrefit(v) THEN Return(FALSE, r0, cand, fit)
     ELSE LET r1 == count(r0, kV0TPCrefit)
          IN IF rev = 1 THEN selectDCAxy(v, r1, cand, fit)
             ELSE IF ~ passesCrossedRows(v) THEN Return(FALSE, r1, cand, fit)
             ELSE selectDCAxy(v, count(r1, kV0CrossedRows), cand, fit)

---------------------------------------------------------------------------
(* buildStrangenessTables: entry, one turn of the loop over the V0s, exit *)

v0dataRow(id, cand) ==
  [v0Id |-> id, posTrackX |-> cand.posTrackX, negTrackX |-> cand.negTrackX,
   pos |-> cand.pos, posP |-> cand.posP, negP |-> cand.negP,
   dcaV0dau |-> cand.dcaV0dau, posDCAxy |-> cand.posDCAxy,
   negDCAxy |-> cand.negDCAxy]

buildStrangenessTables_enter ==
  /\ pc = "collision"
  /\ nCollisions > 0
  /\ nCollisions' = nCollisions - 1
  /\ statisticsRegistry' =
       [statisticsRegistry EXCEPT !.eventCounter = @ + 1]
  /\ \E n \in 0 .. nV0sInput : nV0s' = n /\ nV0sInput' = nV0sInput - n
  /\ pc' = "loop"
  /\ UNCHANGED <<rev, workflow, opt, sel, createV0CovMats, registry,
                 v0candidate, fitter, iV0, V0, validCandidate, v0data, v0covs,
                 ccdbVars>>
  /\ UNCHANGED straVars
  /\ UNCHANGED qcVars

buildStrangenessTables_loop ==
  /\ pc = "loop"
  /\ iV0 < nV0s
  /\ \E v \in V0sOf(rev) :
       LET r == buildV0Candidate(v, statisticsRegistry, v0candidate, fitter)
       IN /\ V0' = v
          /\ validCandidate' = r.ret
          /\ statisticsRegistry' = r.reg
          /\ v0candidate' = r.cand
          /\ fitter' = r.fit
          /\ propagator' = propagateDaughters(propagator, v)
          /\ v0data' = IF r.ret THEN Append(v0data, v0dataRow(iV0 + 1, r.cand))
                       ELSE v0data
          /\ v0covs' = IF r.ret /\ createV0CovMats # 0
                       THEN Append(v0covs, [v0Id |-> iV0 + 1])
                       ELSE v0covs
  /\ iV0' = iV0 + 1
  /\ UNCHANGED <<rev, pc, workflow, opt, sel, createV0CovMats, registry,
                 nCollisions, nV0sInput, nV0s, mRunNumber, d_bz, lut, bcs>>
  /\ UNCHANGED straVars
  /\ UNCHANGED qcVars

buildStrangenessTables_exit ==
  /\ pc = "loop"
  /\ iV0 = nV0s
  /\ registry' = fillHistos(registry, statisticsRegistry)
  /\ statisticsRegistry' = resetHistos(statisticsRegistry)
  /\ pc' = "ready"
  \* the call returns: its locals, and the model's record of what it gave to
  \* the cursors and asked of the fitter, go out of scope
  /\ nV0s' = 0
  /\ iV0' = 0
  /\ V0' = NoV0
  /\ validCandidate' = FALSE
  /\ v0data' = << >>
  /\ v0covs' = << >>
  /\ fitter' = [fitter EXCEPT !.calls = 0, !.throws = 0]
  /\ propagator' = [propagator EXCEPT !.nToDCA = 0]
  /\ UNCHANGED <<rev, workflow, opt, sel, createV0CovMats, v0candidate,
                 nCollisions, nV0sInput, mRunNumber, d_bz, lut, bcs>>
  /\ UNCHANGED straVars
  /\ UNCHANGED qcVars

---------------------------------------------------------------------------
(* The StrangenessBuilder task: init, and dataProcess (processRealData)     *)
(* with initCCDB, markV0sUsedInCascades and buildV0s.                       *)

MaxDFs == 2
MaxStraV0s == 2
MaxCascades == 1

(* enum tableIndex, the two tables dataProcess asks about *)
kV0CoresBase == 1
kStoredCascCores == 6

TableIndex == {kV0CoresBase, kStoredCascCores}

(* settings of enabledTables: -1 autodetect, 0 / 1 false / true *)
EnabledTablesSettings ==
  { [t \in TableIndex |-> -1],
    [t \in TableIndex |-> IF t = kV0CoresBase THEN 1 ELSE -1],
    [t \in TableIndex |-> IF t = kV0CoresBase THEN 0 ELSE 1],
    [t \in TableIndex |-> 1] }

(* run numbers of the data frames *)
StraRuns == {0, 1, 2}

(* the cascades of a data frame, each by the V0 it is built on *)
CascadesOf(n) ==
  UNION { [1 .. k -> [v0Id : 0 .. (n - 1)]] : k \in 0 .. MaxCascades }

(* a data frame: its bunch crossings (all of one run), V0s and cascades *)
DataFrames ==
  UNION { { [bcs |-> 1, runNumber |-> r, v0s |-> n, cascades |-> c] :
              r \in StraRuns, c \in CascadesOf(n) } : n \in 0 .. MaxStraV0s }
  \cup { [bcs |-> 0, runNumber |-> 0, v0s |-> 0, cascades |-> << >>] }

NoDF == [bcs |-> 0, runNumber |-> 0, v0s |-> 0, cascades |-> << >>]

(* the look-up table the CCDB holds for the timestamps of a run *)
MatLUTOf(run) == [null |-> FALSE, value |-> run]

(* std::vector<int>::resize(n, value): a longer vector is cut, a shorter    *)
(* one is filled up with value, and the elements kept are not touched       *)
resize(v, n, value) ==
  [i \in 1 .. n |-> IF i <= Len(v) THEN v[i] ELSE value]

RECURSIVE markUsed(_, _)
markUsed(v0Map, cascades) ==
  IF cascades = << >> THEN v0Map
  ELSE markUsed([v0Map EXCEPT ![Head(cascades).v0Id + 1] = -1], Tail(cascades))

markV0sUsedInCascades(v0Map, v0s, cascades) ==
  markUsed(resize(v0Map, v0s, -2), cascades)

(* buildV0s: one straHelper.buildV0Candidate call per V0 *)
buildV0s(helper, v0s) == [helper EXCEPT !.nBuildV0Candidate = @ + v0s]

StraConstructed ==
  /\ straBuilder \in
       { [pc |-> "constructed", enabledTables |-> e, mRunNumber |-> Garbage,
          mEnabledTables |-> << >>, lut |-> Null, v0Map |-> << >>] :
           e \in IF nDFs = 0 THEN {[t \in TableIndex |-> -1]}
                 ELSE EnabledTablesSettings }
  /\ straHelper = [lut |-> Null, nBuildV0Candidate |-> 0]
  /\ straPropagator = [matLUT |-> Null, nSetMatLUT |-> 0]
  /\ straSubscribed \in IF nDFs = 0 THEN {{}} ELSE SUBSET TableIndex
  /\ df = NoDF

straInit ==
  /\ straBuilder.pc = "constructed"
  /\ straBuilder' =
       [straBuilder EXCEPT
          !.pc = "ready",
          !.mRunNumber = 0,
          !.mEnabledTables =
             [t \in TableIndex |-> IF straBuilder.enabledTables[t] = 1
                                   THEN 1 ELSE 0]]
  /\ UNCHANGED <<straHelper, straPropagator, straSubscribed, nDFs, df>>
  /\ UNCHANGED lambdakzeroVars
  /\ UNCHANGED qcVars

(* StrangenessBuilder::initCCDB for a data frame that has bunch crossings   *)
(* of another run than mRunNumber                                           *)
straLoadLUT(d) ==
  /\ straBuilder' =
       [straBuilder EXCEPT
          !.lut = MatLUTOf(d.runNumber),
          !.v0Map = markV0sUsedInCascades(@, d.v0s, d.cascades)]
  /\ straPropagator' =
       [matLUT |-> MatLUTOf(d.runNumber),
        nSetMatLUT |-> straPropagator.nSetMatLUT + 1]
  /\ straHelper' =
       LET h == [straHelper EXCEPT !.lut = MatLUTOf(d.runNumber)]
       IN IF straBuilder.mEnabledTables[kV0CoresBase] # 0
          THEN buildV0s(h, d.v0s) ELSE h

dataProcess ==
  /\ straBuilder.pc = "ready"
  /\ nDFs > 0
  /\ nDFs' = nDFs - 1
  /\ \E d \in DataFrames :
       /\ df' = d
       /\ IF d.bcs = 0
          THEN UNCHANGED <<straBuilder, straHelper, straPropagator>>
          ELSE IF straBuilder.mRunNumber = d.runNumber
          THEN /\ straBuilder' =
                    [straBuilder EXCEPT
                       !.v0Map = markV0sUsedInCascades(@, d.v0s, d.cascades)]
               /\ straHelper' =
                    IF straBuilder.mEnabledTables[kV0CoresBase] # 0
                    THEN buildV0s(straHelper, d.v0s) ELSE straHelper
               /\ UNCHANGED straPropagator
          ELSE straLoadLUT(d)
  /\ UNCHANGED straSubscribed
  /\ UNCHANGED lambdakzeroVars
  /\ UNCHANGED qcVars

---------------------------------------------------------------------------
(* The straRecoStudy task: init, processV0 and processCascade, called per   *)
(* collision.  Floats are in units of 1/1000.                               *)

MaxRecoCalls == 2
MaxRecoV0s == 1
MaxRecoCascades == 2

(* enum evselstep *)
kEvSelAll == 0
kEvSelBool == 1
kEvSelVtxZ == 2
kEvSelAllSteps == 3

(* the Configurables of straRecoStudy; mincrossedrows as configured *)
RecoOptions(rows) ==
  [v0setting_cospa |-> 950, v0setting_dcav0dau |-> 1000,
   v0setting_radius |-> 900, cascadesetting_cospa |-> 950,
   cascadesetting_cascradius |-> 500,
   event_sel8_selection |-> TRUE, event_posZ_selection |-> TRUE,
   tpcmincrossedrows |-> rows, itsminclusters |-> 4]

(* the species the histograms are booked for, by PDG code *)
V0Species == {310, 3122, -3122}
CascadeSpecies == {3312, -3312, 3334, -3334}
RecoSpecies == V0Species \cup CascadeSpecies

(* the histograms by family: hEventSelection by bin; per species the track  *)
(* quality histograms (h3dTrackPts...), the topology QA histograms          *)
(* (h2d...QA...) and the invariant mass histogram (h2dMass...)              *)
RecoHistos ==
  [hEventSelection |-> [ii \in 0 .. (kEvSelAllSteps - 1) |-> 0],
   h3dTrackPts |-> [p \in RecoSpecies |-> 0],
   h2dQA |-> [p \in RecoSpecies |-> 0],
   h2dMass |-> [p \in RecoSpecies |-> 0]]

(* collisions: accepted, without sel8, with a vertex 12 cm off *)
RecoCollisions ==
  { [sel8 |-> TRUE, posZ |-> 0],
    [sel8 |-> FALSE, posZ |-> 0],
    [sel8 |-> TRUE, posZ |-> -12000] }

GoodK0Short ==
  [hasMC |-> TRUE, posMC |-> TRUE, negMC |-> TRUE, y |-> 100, pdgCode |-> 310,
   posITS |-> 6, negITS |-> 5, posRows |-> 90, negRows |-> 80,
   v0radius |-> 2000, v0cosPA |-> 990, dcaV0daughters |-> 300]

RecoV0Universe ==
  { GoodK0Short,
    [GoodK0Short EXCEPT !.pdgCode = -3122],
    [GoodK0Short EXCEPT !.hasMC = FALSE],    \* no MC particle
    [GoodK0Short EXCEPT !.y = 700],          \* outside the rapidity window
    [GoodK0Short EXCEPT !.negITS = 3] }      \* too few ITS clusters

GoodXiMinus ==
  [hasMC |-> TRUE, y |-> -200, pdgCode |-> 3312, hasV0Data |-> TRUE,
   posITS |-> 6, negITS |-> 5, bachITS |-> 7,
   posRows |-> 90, negRows |-> 80,
   v0radius |-> 3000, cascradius |-> 1500, v0cosPA |-> 990,
   casccosPA |-> 995, dcaV0daughters |-> 300]

RecoCascadeUniverse ==
  { GoodXiMinus,
    [GoodXiMinus EXCEPT !.pdgCode = -3334],
    [GoodXiMinus EXCEPT !.hasMC = FALSE],      \* no MC particle
    [GoodXiMinus EXCEPT !.y = 800],            \* outside the rapidity window
    [GoodXiMinus EXCEPT !.hasV0Data = FALSE] } \* its V0 was not built

SeqsUpTo(S, n) == UNION { [1 .. k -> S] : k \in 0 .. n }

NoRecoCall ==
  [process |-> "none", collision |-> [sel8 |-> FALSE, posZ |-> 0],
   fullV0s |-> << >>, Cascades |-> << >>]

resetCounters(t) ==
  [t EXCEPT !.evselstats = [ii \in 0 .. (kEvSelAllSteps - 1) |-> 0]]

(* straRecoStudy::fillHistos *)
recoFillHistos(t) ==
  [t EXCEPT !.histos.hEventSelection =
     [ii \in 0 .. (kEvSelAllSteps - 1) |-> @[ii] + t.evselstats[ii]]]

(* histos.fill of the histograms of one family for one species *)
fill(h, family, pdgCode) == [h EXCEPT ![family][pdgCode] = @ + 1]

(* the body of the V0 loop for one V0 *)
studyV0(h, o, v0) ==
  IF ~ v0.hasMC \/ ~ v0.posMC \/ ~ v0.negMC THEN h
  ELSE IF Abs(v0.y) > 500 THEN h
  ELSE
    LET h1 == IF v0.pdgCode \in V0Species
              THEN fill(h, "h3dTrackPts", v0.pdgCode) ELSE h
    IN IF v0.posITS < o.itsminclusters \/ v0.negITS < o.itsminclusters THEN h1
       ELSE IF v0.posRows < o.tpcmincrossedrows
                 \/ v0.negRows < o.tpcmincrossedrows THEN h1
       ELSE
         LET h2 == IF v0.pdgCode \in {310, 3122}
                   THEN fill(h1, "h2dQA", v0.pdgCode) ELSE h1
         IN IF /\ v0.v0radius > o.v0setting_radius
               /\ v0.v0cosPA > o.v0setting_cospa
               /\ v0.dcaV0daughters < o.v0setting_dcav0dau
               /\ v0.pdgCode \in V0Species
            THEN fill(h2, "h2dMass", v0.pdgCode) ELSE h2

RECURSIVE v0Loop(_, _, _)
v0Loop(h, o, v0s) ==
  IF v0s = << >> THEN h
  ELSE v0Loop(studyV0(h, o, Head(v0s)), o, Tail(v0s))

(* the body of the cascade loop for a cascade that has an MC particle *)
studyCascade(h, o, casc) ==
  IF Abs(casc.y) > 500 THEN h
  ELSE IF ~ casc.hasV0Data THEN h
  ELSE
    LET h1 == IF casc.pdgCode \in CascadeSpecies
              THEN fill(h, "h3dTrackPts", casc.pdgCode) ELSE h
    IN IF \/ casc.posITS < o.itsminclusters
          \/ casc.negITS < o.itsminclusters
          \/ casc.bachITS < o.itsminclusters THEN h1
       ELSE IF \/ casc.posRows < o.tpcmincrossedrows
               \/ casc.negRows < o.tpcmincrossedrows
               \/ casc.bachITS < o.tpcmincrossedrows THEN h1
       ELSE
         LET h2 == IF casc.pdgCode \in {3312, 3334}
                   THEN fill(h1, "h2dQA", casc.pdgCode) ELSE h1
         IN IF /\ casc.v0radius > o.v0setting_radius
               /\ casc.cascradius > o.cascadesetting_cascradius
               /\ casc.v0cosPA > o.v0setting_cospa
               /\ casc.casccosPA > o.cascadesetting_cospa
               /\ casc.dcaV0daughters < o.v0setting_dcav0dau
               /\ casc.pdgCode \in CascadeSpecies
            THEN fill(h2, "h2dMass", casc.pdgCode) ELSE h2

(* the cascade loop: a cascade without MC particle ends the function *)
RECURSIVE cascadeLoop(_, _, _)
cascadeLoop(h, o, cascades) ==
  IF cascades = << >> THEN h
  ELSE IF ~ Head(cascades).hasMC THEN h
  ELSE cascadeLoop(studyCascade(h, o, Head(cascades)), o, Tail(cascades))

RecoConstructed ==
  /\ recoStudy \in
       { [pc |-> "constructed", opt |-> RecoOptions(rows),
          evselstats |-> [ii \in 0 .. (kEvSelAllSteps - 1) |-> Garbage],
          histos |-> RecoHistos] :
           rows \in IF nRecoCalls = 0 THEN {70} ELSE {70, 5} }
  /\ recoCall = NoRecoCall

recoInit ==
  /\ recoStudy.pc = "constructed"
  /\ nRecoCalls > 0
  /\ recoStudy' = [resetCounters(recoStudy) EXCEPT !.pc = "ready"]
  /\ UNCHANGED <<nRecoCalls, recoCall>>
  /\ UNCHANGED <<lambdakzeroVars, straVars, preselVars, benchVars>>

(* whether the event selection lets the collision through *)
passesSel8(o, collision) == ~ (o.event_sel8_selection /\ ~ collision.sel8)

passesPosZ(o, collision) ==
  ~ (o.event_posZ_selection /\ Abs(collision.posZ) > 10000)

count3(t, k) == [t EXCEPT !.evselstats[k] = @ + 1]

processV0 ==
  /\ recoStudy.pc = "ready"
  /\ nRecoCalls > 0
  /\ nRecoCalls' = nRecoCalls - 1
  /\ \E collision \in RecoCollisions,
        fullV0s \in SeqsUpTo(RecoV0Universe, MaxRecoV0s) :
       /\ recoCall' = [process |-> "processV0", collision |-> collision,
                       fullV0s |-> fullV0s, Cascades |-> << >>]
       /\ recoStudy' =
            LET t0 == count3(recoStudy, kEvSelAll)
            IN IF ~ passesSel8(t0.opt, collision) THEN t0
               ELSE LET t1 == count3(t0, kEvSelBool)
                    IN IF ~ passesPosZ(t1.opt, collision) THEN t1
                       ELSE LET t2 == count3(t1, kEvSelVtxZ)
                                t3 == [t2 EXCEPT !.histos =
                                         v0Loop(@, t2.opt, fullV0s)]
                            IN resetCounters(recoFillHistos(t3))
  /\ UNCHANGED <<lambdakzeroVars, straVars, preselVars, benchVars>>

processCascade ==
  /\ recoStudy.pc = "ready"
  /\ nRecoCalls > 0
  /\ nRecoCalls' = nRecoCalls - 1
  /\ \E collision \in RecoCollisions,
        Cascades \in SeqsUpTo(RecoCascadeUniverse, MaxRecoCascades) :
       /\ recoCall' = [process |-> "processCascade", collision |-> collision,
                       fullV0s |-> << >>, Cascades |-> Cascades]
       /\ recoStudy' =
            IF ~ passesSel8(recoStudy.opt, collision) THEN recoStudy
            ELSE IF ~ passesPosZ(recoStudy.opt, collision) THEN recoStudy
            ELSE [recoStudy EXCEPT !.histos =
                    cascadeLoop(@, recoStudy.opt, Cascades)]
  /\ UNCHANGED <<lambdakzeroVars, straVars, preselVars, benchVars>>

(* the straRecoStudy left aside: constructed and never started *)
RecoIdle ==
  /\ nRecoCalls = 0
  /\ RecoConstructed

---------------------------------------------------------------------------
(* The lambdakzeroPreselector task: processBuildAll and                     *)
(* processBuildValiddEdx with checkdEdx and checkTrackQuality.              *)

MaxPreselCalls == 2
MaxPreselV0s == 1

(* the Configurables the two process functions read: which dE/dx            *)
(* hypotheses are switched on, and dPreselectOnlyBaryons                    *)
PreselOptions(hypotheses, onlyBaryons) ==
  [ddEdxPreSelectGamma |-> "Gamma" \in hypotheses,
   ddEdxPreSelectK0Short |-> "K0Short" \in hypotheses,
   ddEdxPreSelectLambda |-> "Lambda" \in hypotheses,
   ddEdxPreSelectAntiLambda |-> "AntiLambda" \in hypotheses,
   ddEdxPreSelectHypertriton |-> "Hypertriton" \in hypotheses,
   ddEdxPreSelectAntiHypertriton |-> "AntiHypertriton" \in hypotheses,
   ddEdxPreSelectionWindow |-> 7000,
   dTPCNCrossedRows |-> 50,
   dPreselectOnlyBaryons |-> onlyBaryons]

(* the defaults, everything switched on, antihypertritons alone *)
PreselHypotheses ==
  { {"K0Short", "Lambda", "AntiLambda"},
    {"Gamma", "K0Short", "Lambda", "AntiLambda", "Hypertriton",
     "AntiHypertriton"},
    {"AntiHypertriton"} }

(* a track by the particle its dE/dx is compatible with: 0 sigma for that   *)
(* particle and 10 sigma for the others                                     *)
PreselTrack(particle, rows) ==
  [tpcNSigmaEl |-> IF particle = "El" THEN 0 ELSE 10000,
   tpcNSigmaPi |-> IF particle = "Pi" THEN 0 ELSE -10000,
   tpcNSigmaPr |-> IF particle = "Pr" THEN 0 ELSE 10000,
   tpcNSigmaHe |-> IF particle = "He" THEN 0 ELSE -10000,
   tpcNClsCrossedRows |-> rows]

PreselTracks ==
  { PreselTrack(p, rows) : p \in {"El", "Pi", "Pr", "He"}, rows \in {40, 50} }

PreselV0s == [posTrack : PreselTracks, negTrack : PreselTracks]

NoPreselCall == [process |-> "none", v0table |-> << >>]

(* checkTrackQuality: the value it leaves in lIsInteresting *)
checkTrackQuality(o, v, lIsGamma, lIsK0Short, lIsLambda, lIsAntiLambda, lIsHypertriton, lIsAntiHypertriton) ==
  LET pos == v.posTrack.tpcNClsCrossedRows >= o.dTPCNCrossedRows
      neg == v.negTrack.tpcNClsCrossedRows >= o.dTPCNCrossedRows
  IN \/ (lIsGamma \/ lIsK0Short) /\ (pos /\ neg)
     \/ lIsLambda /\ (pos /\ (neg \/ o.dPreselectOnlyBaryons))
     \/ lIsAntiLambda /\ (neg /\ (pos \/ o.dPreselectOnlyBaryons))
     \/ lIsHypertriton /\ (pos /\ (neg \/ o.dPreselectOnlyBaryons))
     \/ lIsHypertriton /\ (neg /\ (pos \/ o.dPreselectOnlyBaryons))

(* |n sigma| inside the preselection window *)
inWindow(o, nSigma) == Abs(nSigma) < o.ddEdxPreSelectionWindow

(* checkdEdx, called with all its flags false: the flags it leaves *)
checkdEdx(o, v) ==
  LET neg == v.negTrack
      pos == v.posTrack
      gamma == /\ inWindow(o, neg.tpcNSigmaEl)
               /\ inWindow(o, pos.tpcNSigmaEl)
               /\ o.ddEdxPreSelectGamma
      k0Short == /\ inWindow(o, neg.tpcNSigmaPi)
                 /\ inWindow(o, pos.tpcNSigmaPi)
                 /\ o.ddEdxPreSelectK0Short
      lambda == /\ (inWindow(o, neg.tpcNSigmaPi) \/ o.dPreselectOnlyBaryons)
                /\ inWindow(o, pos.tpcNSigmaPr)
                /\ o.ddEdxPreSelectLambda
      antiLambda == /\ inWindow(o, neg.tpcNSigmaPr)
                    /\ (inWindow(o, pos.tpcNSigmaPi) \/ o.dPreselectOnlyBaryons)
                    /\ o.ddEdxPreSelectAntiLambda
      hypertriton == /\ inWindow(o, neg.tpcNSigmaPi)
                     /\ (inWindow(o, pos.tpcNSigmaHe) \/ o.dPreselectOnlyBaryons)
                     /\ o.ddEdxPreSelectHypertriton
      antiHypertriton ==
        /\ (inWindow(o, neg.tpcNSigmaHe) \/ o.dPreselectOnlyBaryons)
        /\ inWindow(o, pos.tpcNSigmaPi)
        /\ o.ddEdxPreSelectAntiHypertriton
  IN [lIsInteresting |-> \/ gamma \/ k0Short \/ lambda \/ antiLambda
                         \/ hypertriton \/ antiHypertriton,
      lIsGamma |-> gamma, lIsK0Short |-> k0Short, lIsLambda |-> lambda,
      lIsAntiLambda |-> antiLambda, lIsHypertriton |-> hypertriton,
      lIsAntiHypertriton |-> antiHypertriton]

(* a row of the V0Tags table: isInteresting and the six dE/dx flags (the    *)
(* six MC flags are true in both process functions)                         *)
v0tagsRow(isInteresting, f) ==
  [isInteresting |-> isInteresting,
   isdEdxGamma |-> f.lIsGamma, isdEdxK0Short |-> f.lIsK0Short,
   isdEdxLambda |-> f.lIsLambda, isdEdxAntiLambda |-> f.lIsAntiLambda,
   isdEdxHypertriton |-> f.lIsHypertriton,
   isdEdxAntiHypertriton |-> f.lIsAntiHypertriton]

AllTrue ==
  [lIsInteresting |-> TRUE, lIsGamma |-> TRUE, lIsK0Short |-> TRUE,
   lIsLambda |-> TRUE, lIsAntiLambda |-> TRUE, lIsHypertriton |-> TRUE,
   lIsAntiHypertriton |-> TRUE]

(* the row processBuildAll writes for a V0 *)
buildAllRow(o, v) ==
  v0tagsRow(checkTrackQuality(o, v, TRUE, TRUE, TRUE, TRUE, TRUE, TRUE),
            AllTrue)

(* the row processBuildValiddEdx writes for a V0 *)
buildValiddEdxRow(o, v) ==
  LET f == checkdEdx(o, v)
      lIsQualityInteresting ==
        checkTrackQuality(o, v, f.lIsGamma, f.lIsK0Short, f.lIsLambda,
                          f.lIsAntiLambda, f.lIsHypertriton,
                          f.lIsAntiHypertriton)
  IN v0tagsRow(f.lIsInteresting /\ lIsQualityInteresting, f)

PreselConstructed ==
  /\ preselector \in
       { [opt |-> PreselOptions(h, b), v0tags |-> << >>] :
           h \in IF nPreselCalls = 0 THEN {{"K0Short", "Lambda", "AntiLambda"}}
                 ELSE PreselHypotheses,
           b \in IF nPreselCalls = 0 THEN {FALSE} ELSE BOOLEAN }
  /\ preselCall = NoPreselCall

processBuildAll ==
  /\ nPreselCalls > 0
  /\ nPreselCalls' = nPreselCalls - 1
  /\ \E v0table \in SeqsUpTo(PreselV0s, MaxPreselV0s) :
       /\ preselCall' = [process |-> "processBuildAll", v0table |-> v0table]
       /\ preselector' =
            [preselector EXCEPT !.v0tags =
               [k \in DOMAIN v0table |-> buildAllRow(preselector.opt, v0table[k])]]
  /\ UNCHANGED <<lambdakzeroVars, straVars, recoVars, benchVars>>

processBuildValiddEdx ==
  /\ nPreselCalls > 0
  /\ nPreselCalls' = nPreselCalls - 1
  /\ \E v0table \in SeqsUpTo(PreselV0s, MaxPreselV0s) :
       /\ preselCall' = [process |-> "processBuildValiddEdx", v0table |-> v0table]
       /\ preselector' =
            [preselector EXCEPT !.v0tags =
               [k \in DOMAIN v0table |->
                  buildValiddEdxRow(preselector.opt, v0table[k])]]
  /\ UNCHANGED <<lambdakzeroVars, straVars, recoVars, benchVars>>

(* the lambdakzeroPreselector left aside *)
PreselIdle ==
  /\ nPreselCalls = 0
  /\ PreselConstructed

---------------------------------------------------------------------------
(* The groupingBenchmarkPresliceUnsorted task: init and process, called     *)
(* once per data frame.  The clock counts in ticks.                         *)

MaxBenchDFs == 4
MaxBenchCollisions == 2
MaxBenchV0s == 2

(* a data frame: the sizes of its StraCollisions and V0CollRefs tables; a   *)
(* data frame without collisions has no V0s                                 *)
BenchDFs ==
  { [collisions |-> 0, V0s |-> 0] }
  \cup { [collisions |-> n, V0s |-> m] :
           n \in 1 .. MaxBenchCollisions, m \in 0 .. MaxBenchV0s }

NoBenchDF == [collisions |-> 0, V0s |-> 0]

(* the members after construction: atDF and atFilledDF are 0, previous is   *)
(* the epoch, and collisionsThisDF and V0sThisDF have no initializer        *)
BenchConstructed ==
  /\ bench \in
       { [pc |-> "constructed", atDF |-> 0, atFilledDF |-> 0,
          collisionsThisDF |-> u, V0sThisDF |-> u, previous |-> 0,
          histos |-> << >>] :
           u \in IF nBenchDFs = 0 THEN {0} ELSE {0, Garbage} }
  /\ benchDF = NoBenchDF
  /\ benchNow = IF nBenchDFs = 0 THEN 0 ELSE 1

(* init books the histograms *)
benchInit ==
  /\ bench.pc = "constructed"
  /\ nBenchDFs > 0
  /\ bench' = [bench EXCEPT !.pc = "ready"]
  /\ UNCHANGED <<nBenchDFs, benchDF, benchNow>>
  /\ UNCHANGED <<lambdakzeroVars, straVars, recoVars, preselVars>>

(* "take the values in case this is a non-empty DF" *)
takeValues(b, d) ==
  IF d.collisions > 0
  THEN [b EXCEPT !.collisionsThisDF = d.collisions, !.V0sThisDF = d.V0s]
  ELSE b

(* the three Fill calls at bin atFilledDF *)
fillVsDF(b, elapsed) ==
  [b EXCEPT !.histos =
     Append(@, [atFilledDF |-> b.atFilledDF,
                hCollisionsVsDF |-> b.collisionsThisDF,
                hV0sVsDF |-> b.V0sThisDF,
                hTimeVsDF |-> elapsed])]

(* "this is the empty DF that succeeds a filled DF, mark time now" *)
markTime(b, d, now) ==
  IF b.atDF > 0 /\ d.collisions = 0
  THEN [fillVsDF(b, now - b.previous) EXCEPT
          !.previous = now, !.atFilledDF = @ + 1]
  ELSE b

(* "first DF capture" *)
firstCapture(b, now) == IF b.atDF = 0 THEN [b EXCEPT !.previous = now] ELSE b

process ==
  /\ bench.pc = "ready"
  /\ nBenchDFs > 0
  /\ nBenchDFs' = nBenchDFs - 1
  /\ \E d \in BenchDFs :
       /\ benchDF' = d
       /\ bench' =
            [markTime(takeValues(firstCapture(bench, benchNow), d), d, benchNow)
               EXCEPT !.atDF = @ + 1]
  /\ benchNow' = benchNow + 1
  /\ UNCHANGED <<lambdakzeroVars, straVars, recoVars, preselVars>>

(* the groupingBenchmarkPresliceUnsorted left aside *)
BenchIdle ==
  /\ nBenchDFs = 0
  /\ BenchConstructed

(* the tasks around the builders left aside *)
QCIdle ==
  /\ RecoIdle
  /\ PreselIdle
  /\ BenchIdle

---------------------------------------------------------------------------
(* The task after construction, before init *)

Modes == [doprocessRun2 : BOOLEAN, doprocessRun3 : BOOLEAN,
          doprocessRun3associated : BOOLEAN]

(* the first revision has no processRun3associated switch *)
ModesOf(r) == IF r = 1 THEN {m \in Modes : ~ m.doprocessRun3associated} ELSE Modes

DefaultModes(r) ==
  [doprocessRun2 |-> (r = 2), doprocessRun3 |-> (r = 1),
   doprocessRun3associated |-> FALSE]

Options(m, auto, refit) ==
  [doprocessRun2 |-> m.doprocessRun2, doprocessRun3 |-> m.doprocessRun3,
   doprocessRun3associated |-> m.doprocessRun3associated,
   d_UseAutodetectMode |-> auto, tpcrefit |-> refit,
   mincrossedrows |-> Default_mincrossedrows,
   d_bz_input |-> Default_d_bz_input, useMatCorrType |-> 0]

UninitializedRegistry(r) ==
  [v0stats |-> [ii \in 0 .. ((IF r = 1 THEN 6 ELSE 7) - 1) |-> Garbage],
   exceptions |-> Garbage, eventCounter |-> Garbage]

UninitializedCandidate ==
  [posTrackX |-> Garbage, negTrackX |-> Garbage, pos |-> Garbage,
   posP |-> Garbage, negP |-> Garbage, dcaV0dau |-> Garbage,
   posDCAxy |-> Garbage, negDCAxy |-> Garbage, cosPA |-> Garbage,
   V0radius |-> Garbage]

Constructed ==
  /\ rev \in {1, 2}
  /\ pc = "constructed"
  /\ statisticsRegistry = UninitializedRegistry(rev)
  /\ registry = EmptyRegistry
  /\ v0candidate = UninitializedCandidate
  /\ fitter = NewFitter
  /\ mRunNumber = Garbage
  /\ d_bz = Garbage
  /\ lut = "nullptr"
  /\ propagator = NewPropagator
  /\ nV0s = 0
  /\ iV0 = 0
  /\ V0 = NoV0
  /\ validCandidate = FALSE
  /\ v0data = << >>
  /\ v0covs = << >>
  /\ nDFs = 0
  /\ StraConstructed
  /\ QCIdle

(* jobs that exercise the pipeline: a consumer in the workflow, several      *)
(* collisions                                                               *)
InitPipeline ==
  /\ Constructed
  /\ \/ /\ workflow = << Device("stra-reco-study", << "V0Datas" >>, OptStraRecoStudy) >>
        /\ opt = Options(DefaultModes(rev), TRUE, 1)
     \/ /\ workflow = << Device("v0-analysis", << "V0Datas", "V0Covs" >>, OptLoose) >>
        /\ opt = Options(DefaultModes(rev), TRUE, 0)
  /\ sel = DefaultSel
  /\ createV0CovMats = -1
  /\ nCollisions = MaxEvents
  /\ bcs = [i \in 1 .. MaxEvents |-> BC(1)]
  /\ nV0sInput = MaxV0s

(* jobs that exercise the self-configuration: any workflow, any setting of  *)
(* the switches and of the user's thresholds                                *)
InitConfiguration ==
  /\ Constructed
  /\ workflow \in Workflows
  /\ \E auto \in BOOLEAN : opt = Options(DefaultModes(rev), auto, 0)
  /\ sel \in {DefaultSel, CustomSel}
  /\ createV0CovMats \in {-1, 0, 1}
  /\ nCollisions = 0
  /\ bcs = << >>
  /\ nV0sInput = 0

(* jobs that exercise the process switches *)
InitSwitches ==
  /\ Constructed
  /\ workflow = << Device("stra-reco-study", << "V0Datas" >>, OptStraRecoStudy) >>
  /\ \E m \in ModesOf(rev) : opt = Options(m, TRUE, 0)
  /\ sel = DefaultSel
  /\ createV0CovMats = -1
  /\ nCollisions = 1
  /\ bcs = << BC(1) >>
  /\ nV0sInput = 1

(* jobs that exercise the field set-up: collisions of any runs, without V0s, *)
(* with and without a user-set field                                         *)
InitCCDB ==
  /\ Constructed
  /\ workflow = << Device("stra-reco-study", << "V0Datas" >>, OptStraRecoStudy) >>
  /\ \E bz \in {Default_d_bz_input, 0, -2000}, mc \in {0, 2} :
       opt = [Options(DefaultModes(rev), FALSE, 0)
                EXCEPT !.d_bz_input = bz, !.useMatCorrType = mc]
  /\ sel = DefaultSel
  /\ createV0CovMats = 0
  /\ \E n \in 1 .. (MaxEvents + 1) :
       /\ nCollisions = n
       /\ bcs \in [1 .. n -> {BC(r) : r \in 0 .. MaxRuns}]
  /\ nV0sInput = 0

(* jobs of one collision with one V0: the first fit of a job, for any run   *)
(* number of the first collision                                            *)
InitFirstCollision ==
  /\ Constructed
  /\ workflow = << Device("stra-reco-study", << "V0Datas" >>, OptStraRecoStudy) >>
  /\ opt = Options(DefaultModes(rev), FALSE, 0)
  /\ sel = DefaultSel
  /\ createV0CovMats = 0
  /\ nCollisions = 1
  /\ bcs \in { << BC(r) >> : r \in 0 .. MaxRuns }
  /\ nV0sInput = 1

Init ==
  \/ InitPipeline
  \/ InitConfiguration
  \/ InitSwitches
  \/ InitCCDB
  \/ InitFirstCollision

Next ==
  \/ init
  \/ initCCDB
  \/ buildStrangenessTables_enter
  \/ buildStrangenessTables_loop
  \/ buildStrangenessTables_exit

Spec == Init /\ [][Next]_vars

(* the lambdakzeroBuilder left aside: constructed and never started *)
lambdakzeroAside ==
  /\ rev = 2
  /\ pc = "constructed"
  /\ statisticsRegistry = UninitializedRegistry(rev)
  /\ registry = EmptyRegistry
  /\ v0candidate = UninitializedCandidate
  /\ fitter = NewFitter
  /\ mRunNumber = Garbage
  /\ d_bz = Garbage
  /\ lut = "nullptr"
  /\ propagator = NewPropagator
  /\ nV0s = 0
  /\ iV0 = 0
  /\ V0 = NoV0
  /\ validCandidate = FALSE
  /\ v0data = << >>
  /\ v0covs = << >>
  /\ workflow = << >>
  /\ opt = Options(DefaultModes(rev), TRUE, 0)
  /\ sel = DefaultSel
  /\ createV0CovMats = -1
  /\ nCollisions = 0
  /\ bcs = << >>
  /\ nV0sInput = 0

(* The StrangenessBuilder at work, the lambdakzeroBuilder left aside *)
InitStra ==
  /\ lambdakzeroAside
  /\ nDFs = MaxDFs
  /\ StraConstructed
  /\ QCIdle

NextStra ==
  \/ straInit
  \/ dataProcess

SpecStra == InitStra /\ [][NextStra]_vars

(* both builders left aside *)
buildersAside ==
  /\ lambdakzeroAside
  /\ nDFs = 0
  /\ StraConstructed

(* The straRecoStudy at work, the builders left aside *)
InitReco ==
  /\ buildersAside
  /\ nRecoCalls = MaxRecoCalls
  /\ RecoConstructed
  /\ PreselIdle
  /\ BenchIdle

NextReco ==
  \/ recoInit
  \/ processV0
  \/ processCascade

SpecReco == InitReco /\ [][NextReco]_vars

(* The lambdakzeroPreselector at work *)
InitPresel ==
  /\ buildersAside
  /\ RecoIdle
  /\ nPreselCalls = MaxPreselCalls
  /\ PreselConstructed
  /\ BenchIdle

NextPresel ==
  \/ processBuildAll
  \/ processBuildValiddEdx

SpecPresel == InitPresel /\ [][NextPresel]_vars

(* The groupingBenchmarkPresliceUnsorted at work *)
InitBench ==
  /\ buildersAside
  /\ RecoIdle
  /\ PreselIdle
  /\ nBenchDFs = MaxBenchDFs
  /\ BenchConstructed

NextBench ==
  \/ benchInit
  \/ process

SpecBench == InitBench /\ [][NextBench]_vars

---------------------------------------------------------------------------
(* Properties *)

LoopStep == pc = "loop" /\ iV0' = iV0 + 1

ExitStep == pc = "loop" /\ pc' = "ready"

InitStep == pc = "constructed" /\ pc' = "ready"

Running == pc \in {"ready", "collision", "loop"}

(* C1: when fitter.process throws inside buildV0Candidate, the exception    *)
(* stays inside the builder: the call returns false, the exception counter  *)
(* grows by exactly one, nothing is given to the output cursors for that    *)
(* candidate, and the loop over the batch goes on.                          *)
C1_ExceptionContained ==
  [][ (LoopStep /\ fitter'.throws = fitter.throws + 1)
        => /\ validCandidate' = FALSE
           /\ statisticsRegistry'.exceptions = statisticsRegistry.exceptions + 1
           /\ v0data' = v0data
           /\ v0covs' = v0covs
           /\ pc' = "loop"
           /\ nV0s' = nV0s ]_vars

(* a candidate was built and emitted after the fitter threw on an earlier   *)
(* candidate of the same batch                                              *)
C1_Witness ==
  /\ pc = "loop"
  /\ fitter.throws = 1
  /\ statisticsRegistry.exceptions = 1
  /\ fitter.calls = 2
  /\ validCandidate = TRUE
  /\ Len(v0data) = 1

(* C2: once init has run, the stage counters never increase along the       *)
(* pipeline: v0stats[i] >= v0stats[i+1] from kV0All to kV0Radius.            *)
C2_CountersNonIncreasing ==
  Running =>
    \A i \in kV0All .. (kV0Radius - 1) :
      statisticsRegistry.v0stats[i] >= statisticsRegistry.v0stats[i + 1]

(* three candidates evaluated, lost at different stages, one accepted *)
C2_Witness ==
  /\ pc = "loop"
  /\ statisticsRegistry.v0stats[kV0All] = 3
  /\ statisticsRegistry.v0stats[kV0DCAxy] = 2
  /\ statisticsRegistry.v0stats[kV0DCADau] = 1
  /\ statisticsRegistry.v0stats[kV0Radius] = 1

(* the last stage a V0 passes, read off the cuts; the vertex fit has no      *)
(* counter, so a V0 lost in the fit has passed kV0DCAxy last                 *)
LastStagePassed(v) ==
  IF opt.tpcrefit # 0 /\ ~ (v.posRefit /\ v.negRefit) THEN kV0All
  ELSE IF rev = 2 /\ (v.posRows < opt.mincrossedrows \/ v.negRows < opt.mincrossedrows)
       THEN kV0TPCrefit
  ELSE IF Abs(posTrackdcaXY(v)) < sel.dcapostopv
            \/ Abs(negTrackdcaXY(v)) < sel.dcanegtopv
       THEN kV0DCAxy - 1
  ELSE IF v.fit # "ok" \/ v.pca.dcaV0dau > sel.dcav0dau THEN kV0DCAxy
  ELSE IF v.pca.cosPA < sel.v0cospa THEN kV0DCADau
  ELSE IF v.pca.V0radius < sel.v0radius THEN kV0CosPA
  ELSE kV0Radius

(* C3: one buildV0Candidate call adds exactly 1 to the counter of every      *)
(* stage up to the last one the candidate passed and leaves the counters of *)
(* the later stages as they were.                                           *)
C3_CountsStagesReached ==
  [][ LoopStep =>
        \A j \in Steps :
          statisticsRegistry'.v0stats[j] =
            statisticsRegistry.v0stats[j]
              + (IF j <= LastStagePassed(V0') THEN 1 ELSE 0) ]_vars

(* a candidate that passed the DCA-between-daughters cut and failed the      *)
(* pointing-angle cut, evaluated after another candidate                    *)
C3_Witness ==
  /\ pc = "loop"
  /\ iV0 = 2
  /\ V0.fit = "ok"
  /\ V0.pca.cosPA < sel.v0cospa
  /\ statisticsRegistry.v0stats[kV0DCADau] = 2
  /\ statisticsRegistry.v0stats[kV0CosPA] = 1

---------------------------------------------------------------------------
(* The workflow as the claims about the self-configuration speak of it *)

DevicesOf(w) == {w[i] : i \in DOMAIN w}

Bindings(d) == {d.inputs[i] : i \in DOMAIN d.inputs}

Consumers == {d \in DevicesOf(workflow) : "V0Datas" \in Bindings(d)}

(* the consumers whose options the scan reads *)
Listened ==
  {d \in Consumers :
     d.name \notin {"lambdakzero-initializer", "multistrange-builder"}}

Requested(ds, n) ==
  UNION { {d.options[i].defaultValue :
             i \in {j \in DOMAIN d.options : d.options[j].name = n}} : d \in ds }

SetMin(S) == CHOOSE x \in S : \A y \in S : x <= y

SetMax(S) == CHOOSE x \in S : \A y \in S : x >= y

ThresholdOptions ==
  {"v0setting_cospa", "v0setting_dcav0dau", "v0setting_dcapostopv",
   "v0setting_dcanegtopv", "v0setting_radius"}

C5_FallsBackToConfigured ==
  [][ (InitStep /\ opt.d_UseAutodetectMode /\ Consumers = {}) => sel' = sel ]_vars

(* C6: every V0 of a batch is evaluated whatever happened to the earlier     *)
(* ones, so what the end of the batch adds to the kV0All bin is the number   *)
(* of V0s of the batch.                                                     *)
C6_WholeBatchEvaluated ==
  [][ ExitStep =>
        /\ statisticsRegistry.v0stats[kV0All] = nV0s
        /\ registry'.hV0Criteria[kV0All] = registry.hV0Criteria[kV0All] + nV0s ]_vars

(* a batch of three V0s, none accepted, the fitter threw once: all three     *)
(* were counted                                                             *)
C6_Witness ==
  /\ pc = "ready"
  /\ registry.hEventCounter = 1
  /\ registry.hCaughtExceptions = 1
  /\ registry.hV0Criteria[kV0Radius] = 0
  /\ registry.hV0Criteria[kV0All] = 3

(* C7: a fit without candidates returns false and leaves the exception       *)
(* counter alone, so the exception count a batch flushes is the number of    *)
(* fitter.process calls of the batch that threw.                             *)
C7_ZeroCandidatesNotCounted ==
  [][ /\ (LoopStep /\ fitter'.calls = fitter.calls + 1 /\ V0'.fit = "zero")
         => /\ validCandidate' = FALSE
            /\ statisticsRegistry'.exceptions = statisticsRegistry.exceptions
      /\ ExitStep
         => /\ statisticsRegistry.exceptions = fitter.throws
            /\ registry'.hCaughtExceptions =
                 registry.hCaughtExceptions + fitter.throws ]_vars

(* a fit without candidates right after a fit that threw *)
C7_Witness ==
  /\ pc = "loop"
  /\ V0.fit = "zero"
  /\ fitter.calls = 2
  /\ fitter.throws = 1
  /\ statisticsRegistry.exceptions = 1
  /\ validCandidate = FALSE

(* C8: buildStrangenessTables ends by adding the stage counters, the         *)
(* exception counter and the event counter (1: one batch) to the histograms  *)
(* and zeroing them, whether or not a candidate was accepted; between        *)
(* batches the counters are all zero.                                       *)
C8_FlushedAndResetPerBatch ==
  /\ [][ ExitStep =>
           /\ statisticsRegistry.eventCounter = 1
           /\ registry'.hEventCounter = registry.hEventCounter + 1
           /\ registry'.hCaughtExceptions =
                registry.hCaughtExceptions + statisticsRegistry.exceptions
           /\ \A ii \in Steps :
                registry'.hV0Criteria[ii] =
                  registry.hV0Criteria[ii] + statisticsRegistry.v0stats[ii] ]_vars
  /\ [](pc = "ready" =>
          /\ statisticsRegistry.eventCounter = 0
          /\ statisticsRegistry.exceptions = 0
          /\ \A ii \in Steps : statisticsRegistry.v0stats[ii] = 0)

(* two batches flushed, one of them empty, no candidate accepted in either *)
C8_Witness ==
  /\ pc = "ready"
  /\ registry.hEventCounter = 2
  /\ registry.hV0Criteria[kV0All] = 1
  /\ registry.hV0Criteria[kV0Radius] = 0
  /\ statisticsRegistry.v0stats[kV0All] = 0

NEnabledSwitches ==
  Cardinality({s \in {"doprocessRun2", "doprocessRun3", "doprocessRun3associated"} :
                 opt[s]})

(* C9: init ends fatal exactly when the number of enabled processing modes   *)
(* is not one, and nothing has been processed or built when it does.         *)
C9_FatalAtInit ==
  /\ pc # "constructed" => (pc = "fatal" <=> NEnabledSwitches # 1)
  /\ pc = "fatal" =>
       /\ registry = EmptyRegistry
       /\ statisticsRegistry.eventCounter = 0
       /\ fitter.calls = 0
       /\ v0data = << >>

(* processRun3 and processRun3associated both enabled *)
C9_Witness ==
  /\ pc = "fatal"
  /\ rev = 2
  /\ ~ opt.doprocessRun2
  /\ opt.doprocessRun3
  /\ opt.doprocessRun3associated

(* x is the extremum the scan arrives at: a bound of every request it read,  *)
(* and itself a request or the value the running extremum started from       *)
IsRunningMin(x, n) ==
  /\ \A y \in Requested(Listened, n) : x <= y
  /\ x <= LoosestMinStart
  /\ x \in Requested(Listened, n) \cup {LoosestMinStart}

IsRunningMax(x, n) ==
  /\ \A y \in Requested(Listened, n) : x >= y
  /\ x >= LoosestMaxStart
  /\ x \in Requested(Listened, n) \cup {LoosestMaxStart}

(* C10: with d_UseAutodetectMode off init leaves the five thresholds at the  *)
(* user's values whatever the consumers declare; with it on they become the  *)
(* extrema the scan of the consumers arrived at.                            *)
C10_OverrideKeepsUserValues ==
  [][ InitStep =>
        IF opt.d_UseAutodetectMode
        THEN /\ IsRunningMin(sel'.v0radius, "v0setting_radius")
             /\ IsRunningMin(sel'.dcapostopv, "v0setting_dcapostopv")
             /\ IsRunningMin(sel'.dcanegtopv, "v0setting_dcanegtopv")
             /\ IsRunningMin(sel'.v0cospa, "v0setting_cospa")
             /\ IsRunningMax(sel'.dcav0dau, "v0setting_dcav0dau")
        ELSE sel' = sel ]_vars

(* auto-detection off, user thresholds kept although consumers ask for       *)
(* looser ones                                                              *)
C10_Witness ==
  /\ pc = "ready"
  /\ ~ opt.d_UseAutodetectMode
  /\ sel = CustomSel
  /\ 500 \in Requested(Listened, "v0setting_radius")

(* C11 as stated: with auto-detection on, the second revision's             *)
(* mincrossedrows is the smallest crossed-rows minimum declared by the      *)
(* consumers of V0Datas the scan listens to.                                *)
C11_CrossedRowsNegotiated ==
  (/\ pc = "ready"
   /\ rev = 2
   /\ opt.d_UseAutodetectMode
   /\ Requested(Listened, "mincrossedrows") # {})
  => opt.mincrossedrows = SetMin(Requested(Listened, "mincrossedrows"))

(* the call just made reached the DCA-to-primary-vertex prefilter: it       *)
(* bumped the counter of the stage before it                                *)
ReachedDCAxy ==
  statisticsRegistry'.v0stats[kV0DCAxy - 1]
    = statisticsRegistry.v0stats[kV0DCAxy - 1] + 1

PassedDCAxy ==
  statisticsRegistry'.v0stats[kV0DCAxy] = statisticsRegistry.v0stats[kV0DCAxy] + 1

(* C12 as stated: a candidate that reaches the prefilter passes it exactly  *)
(* when the absolute DCA of each daughter exceeds its minimum; otherwise it *)
(* is rejected before the vertex fit and kV0DCAxy is not incremented.       *)
C12_PrefilterExceeds ==
  [][ (LoopStep /\ ReachedDCAxy) =>
        /\ PassedDCAxy <=> /\ Abs(posTrackdcaXY(V0')) > sel.dcapostopv
                           /\ Abs(negTrackdcaXY(V0')) > sel.dcanegtopv
        /\ ~ PassedDCAxy => (fitter' = fitter /\ validCandidate' = FALSE) ]_vars

(* C12 (amended): a candidate passes the prefilter exactly when the         *)
(* absolute DCA obtained for each daughter is at least its own minimum      *)
(* (positive against dcapostopv, negative against dcanegtopv); one with a   *)
(* daughter below its minimum is rejected before the vertex fit and does    *)
(* not increment kV0DCAxy.                                                  *)
C12_PrefilterAtLeast ==
  [][ (LoopStep /\ ReachedDCAxy) =>
        /\ PassedDCAxy <=> /\ Abs(posTrackdcaXY(V0')) >= sel.dcapostopv
                           /\ Abs(negTrackdcaXY(V0')) >= sel.dcanegtopv
        /\ ~ PassedDCAxy => (fitter' = fitter /\ validCandidate' = FALSE) ]_vars

(* a candidate whose positive daughter sits exactly on the minimum went on  *)
(* to the vertex fit                                                        *)
C12_Witness ==
  /\ pc = "loop"
  /\ iV0 = 1
  /\ Abs(V0.posDCAxy) = sel.dcapostopv
  /\ statisticsRegistry.v0stats[kV0DCAxy] = 1
  /\ fitter.calls = 1

(* C13 as stated: an accepted candidate, and every emitted record, has its  *)
(* DCA between daughters below dcav0dau, its cosine of pointing angle above *)
(* v0cospa and its radius above v0radius.                                   *)
C13_AcceptedInsideCuts ==
  pc = "loop" =>
    /\ validCandidate =>
         /\ v0candidate.dcaV0dau < sel.dcav0dau
         /\ v0candidate.cosPA > sel.v0cospa
         /\ v0candidate.V0radius > sel.v0radius
    /\ \A i \in DOMAIN v0data : v0data[i].dcaV0dau < sel.dcav0dau

(* C13 (amended): an accepted candidate, and every emitted record, has its  *)
(* DCA between daughters at most dcav0dau, its cosine of pointing angle at  *)
(* least v0cospa and its radius at least v0radius.                          *)
C13_AcceptedWithinCuts ==
  pc = "loop" =>
    /\ validCandidate =>
         /\ v0candidate.dcaV0dau <= sel.dcav0dau
         /\ v0candidate.cosPA >= sel.v0cospa
         /\ v0candidate.V0radius >= sel.v0radius
    /\ \A i \in DOMAIN v0data : v0data[i].dcaV0dau <= sel.dcav0dau

(* a candidate decaying exactly at the minimum radius was accepted *)
C13_Witness ==
  /\ pc = "loop"
  /\ validCandidate
  /\ v0candidate.V0radius = sel.v0radius
  /\ Len(v0data) = 1

(* C14 as stated: in the first revision, a candidate with a daughter whose  *)
(* propagation to the primary vertex fails is unbuildable: the call returns *)
(* false without going on to the vertex fit, nothing is emitted, and the    *)
(* candidate struct receives no DCA.                                        *)
C14_PropagationFailureRejects ==
  [][ (/\ LoopStep
       /\ rev = 1
       /\ ReachedDCAxy
       /\ (~ V0'.posProp \/ ~ V0'.negProp))
      => /\ validCandidate' = FALSE
         /\ v0data' = v0data
         /\ fitter' = fitter
         /\ v0candidate' = v0candidate ]_vars

(* what one evaluation of a V0 gives, started from a builder that has       *)
(* evaluated nothing yet                                                    *)
Outcome(v) ==
  LET r == buildV0Candidate(v, resetHistos(statisticsRegistry),
                            UninitializedCandidate, NewFitter)
  IN [ret |-> r.ret, row |-> IF r.ret THEN v0dataRow(0, r.cand) ELSE << >>]

(* the same V0 of the input: equal in all that belongs to the batch *)
SameInput(u, v) == [u EXCEPT !.dcaInfo = 0] = [v EXCEPT !.dcaInfo = 0]

C20_CovMatsAsDocumented ==
  [][ /\ InitStep =>
           /\ createV0CovMats = 1 => createV0CovMats' # 0
           /\ createV0CovMats = 0 => createV0CovMats' = 0
           /\ createV0CovMats = -1 =>
                (createV0CovMats' # 0
                   <=> \E d \in DevicesOf(workflow) : "V0Covs" \in Bindings(d))
      /\ LoopStep =>
           Len(v0covs') - Len(v0covs)
             = IF validCandidate' /\ createV0CovMats # 0 THEN 1 ELSE 0 ]_vars

(* a step of initCCDB: the bunch crossing of the next collision is taken *)
CCDBStep == pc = "ready" /\ bcs # << >> /\ bcs' = Tail(bcs)

(* C15: a call of initCCDB with the cached run number changes nothing; a    *)
(* call with another run number, unless it dies on an empty CCDB, loads the *)
(* field once, calls fitter.setBz once with the field in use and caches the *)
(* run number; nothing is loaded or set in any other case.                  *)
C15_FieldSetOncePerRun ==
  [][ CCDBStep =>
        IF Head(bcs).runNumber = mRunNumber
        THEN /\ pc' = "collision"
             /\ UNCHANGED <<mRunNumber, d_bz, lut, fitter, propagator>>
        ELSE IF pc' = "collision"
        THEN /\ propagator'.nInitField = propagator.nInitField + 1
             /\ fitter'.setBz = fitter.setBz + 1
             /\ fitter'.bz = d_bz'
             /\ mRunNumber' = Head(bcs).runNumber
        ELSE /\ pc' = "fatal-ccdb"
             /\ UNCHANGED <<mRunNumber, d_bz, lut, fitter, propagator>> ]_vars

(* three collisions, the last two of the same run: two loads *)
C15_Witness ==
  /\ pc = "collision"
  /\ registry.hEventCounter = 2
  /\ bcs = << >>
  /\ mRunNumber = 2
  /\ fitter.setBz = 2
  /\ propagator.nInitField = 2

(* C18: in the first revision, initCCDB with the user's field d_bz = 0 and  *)
(* a new run number completes, whatever the CCDB holds, without dividing by *)
(* the field: the L3 current handed to the propagator is the initial 0 and  *)
(* not the infinite quotient, the fitter's field is set to 0 and the run    *)
(* number is cached.                                                        *)
C18_ZeroFieldOverride ==
  [][ (/\ CCDBStep
       /\ rev = 1
       /\ opt.d_bz_input = 0
       /\ Head(bcs).runNumber # mRunNumber)
      => /\ pc' = "collision"
         /\ propagator'.grp = [kind |-> "GRPMagField", value |-> 0, inf |-> FALSE]
         /\ propagator'.nInitField = propagator.nInitField + 1
         /\ d_bz' = 0
         /\ fitter'.bz = 0
         /\ fitter'.setBz = fitter.setBz + 1
         /\ mRunNumber' = Head(bcs).runNumber ]_vars

(* the zero-field override was applied for a run the CCDB knows nothing of *)
C18_Witness ==
  /\ rev = 1
  /\ opt.d_bz_input = 0
  /\ pc = "collision"
  /\ mRunNumber = 3
  /\ fitter.setBz = 1
  /\ propagator.grp.kind = "GRPMagField"

---------------------------------------------------------------------------
(* Properties of the StrangenessBuilder *)

(* a step of dataProcess: df is the data frame given before, df' this one *)
DataStep == nDFs' = nDFs - 1

(* C16 as stated: a data frame of the run of the data frame processed       *)
(* before it triggers no reload: the look-up table is neither fetched nor   *)
(* installed again.                                                         *)
C16_NoReloadWithinRun ==
  [][ (/\ DataStep
       /\ df.bcs > 0
       /\ df'.bcs > 0
       /\ df'.runNumber = df.runNumber)
      => /\ straPropagator' = straPropagator
         /\ straBuilder'.lut = straBuilder.lut
         /\ straHelper'.lut = straHelper.lut ]_vars

(* C17 as stated: after markV0sUsedInCascades, whatever came before, v0Map  *)
(* has one entry per V0 of the data frame, -1 for the V0s a cascade of the  *)
(* data frame refers to and -2 for all others.                              *)
C17_MapRebuiltPerBatch ==
  [][ (DataStep /\ df'.bcs > 0)
      => /\ Len(straBuilder'.v0Map) = df'.v0s
         /\ \A i \in 1 .. df'.v0s :
              straBuilder'.v0Map[i] =
                IF \E k \in DOMAIN df'.cascades : df'.cascades[k].v0Id = i - 1
                THEN -1 ELSE -2 ]_vars


(* the counter of stage k grows by one in this step *)
Bumped(k) ==
  statisticsRegistry'.v0stats[k] = statisticsRegistry.v0stats[k] + 1

(* the detector-quality prefilter: TPC refit, and crossed rows where the    *)
(* revision has that stage                                                  *)
PrefilterRejects(v) ==
  ~ passesTPCrefit(v) \/ (rev = 2 /\ ~ passesCrossedRows(v))

(* C22: the stages of buildV0Candidate are evaluated in one fixed order     *)
(* with no way back: the stages a call passes are an initial segment of the *)
(* order, the propagation comes only after the TPC refit test and the fit   *)
(* only after the DCA prefilter, nothing of a later stage is computed once  *)
(* a stage has rejected, and a candidate rejected by the detector-quality   *)
(* prefilter returns false at once, with no propagation and no              *)
(* fitter.process call.                                                     *)
C22_OrderedStagesEarlyReturn ==
  [][ LoopStep =>
        /\ \A k \in Steps :
             /\ Bumped(k) \/ statisticsRegistry'.v0stats[k]
                               = statisticsRegistry.v0stats[k]
             /\ Bumped(k) => \A j \in 0 .. (k - 1) : Bumped(j)
        /\ propagator'.nToDCA # propagator.nToDCA => Bumped(kV0TPCrefit)
        /\ fitter'.calls # fitter.calls => Bumped(kV0DCAxy)
        /\ Bumped(kV0DCADau) => fitter'.calls = fitter.calls + 1
        /\ ~ Bumped(kV0DCADau) => v0candidate'.cosPA = v0candidate.cosPA
        /\ ~ Bumped(kV0CosPA) => v0candidate'.V0radius = v0candidate.V0radius
        /\ PrefilterRejects(V0')
             => /\ ~ validCandidate'
                /\ propagator'.nToDCA = propagator.nToDCA
                /\ fitter'.calls = fitter.calls
                /\ v0candidate' = v0candidate ]_vars

(* first revision: a V0 that went through propagation and fit, then one     *)
(* rejected by the TPC refit test, for which neither was called             *)
C22_Witness ==
  /\ rev = 1
  /\ pc = "loop"
  /\ iV0 = 2
  /\ ~ passesTPCrefit(V0)
  /\ propagator.nToDCA = 2
  /\ fitter.calls = 1


(* a V0 that passes the DCA prefilter and is lost in the vertex fit *)
LostAtFit(v) == LastStagePassed(v) = kV0DCAxy /\ v.fit # "ok"

(* a V0 that is fitted and fails the DCA-between-daughters cut *)
FailsDCADau(v) == LastStagePassed(v) = kV0DCAxy /\ v.fit = "ok"

(* C23 as stated: every stage, the vertex fit included, has its own         *)
(* counter, so the counters tell a candidate lost at the vertex fit         *)
(* (exception or zero candidates) from one that fails the DCA-between-      *)
(* daughters cut: the two leave different counts behind.                    *)
C23_FitLossesCountedApart ==
  [][ (LoopStep /\ LostAtFit(V0'))
      => \A u \in V0sOf(rev) :
           FailsDCADau(u)
             => buildV0Candidate(u, statisticsRegistry, v0candidate,
                                 fitter).reg # statisticsRegistry' ]_vars


(* C24 as stated: setMatLUT is called only after the field has been         *)
(* initialised, and with LUT correction requested (useMatCorrType = 2)      *)
(* every initCCDB call that loads a new run ends with the look-up table     *)
(* installed on the propagator.                                             *)
C24_LUTAfterField ==
  [][ CCDBStep =>
        /\ propagator'.nSetMatLUT # propagator.nSetMatLUT
             => propagator'.nInitField > 0
        /\ (opt.useMatCorrType = 2 /\ mRunNumber' # mRunNumber)
             => /\ propagator'.matLUT = lut
                /\ propagator'.nSetMatLUT > 0 ]_vars


(* the record of a V0 as its own evaluation determines it *)
OwnRecord(id, v) ==
  [v0Id |-> id, posTrackX |-> v.pca.posTrackX, negTrackX |-> v.pca.negTrackX,
   pos |-> v.pca.pos, posP |-> v.pca.posP, negP |-> v.pca.negP,
   dcaV0dau |-> v.pca.dcaV0dau, posDCAxy |-> posTrackdcaXY(v),
   negDCAxy |-> negTrackdcaXY(v)]

(* C25: a V0 record is emitted exactly when buildV0Candidate returned true  *)
(* for that V0, every field of it is what the evaluation of that V0 wrote   *)
(* (nothing of the scratch struct's earlier content), and the number of     *)
(* records of a batch is the last stage counter flushed for the batch.      *)
C25_RecordsOfAcceptedOnly ==
  [][ /\ LoopStep
        => /\ v0data' = IF validCandidate'
                        THEN Append(v0data, OwnRecord(iV0', V0'))
                        ELSE v0data
           /\ Len(v0data') = statisticsRegistry'.v0stats[kV0Radius]
      /\ ExitStep
        => registry'.hV0Criteria[kV0Radius]
             = registry.hV0Criteria[kV0Radius] + Len(v0data) ]_vars

(* two records in a batch of three V0s: the third V0 was evaluated on a     *)
(* scratch struct that held the values of the V0s before it                 *)
C25_Witness ==
  /\ pc = "loop"
  /\ iV0 = 3
  /\ Len(v0data) = 2
  /\ v0data[1].posTrackX # v0data[2].posTrackX
  /\ v0data[2].v0Id = 3
  /\ v0candidate.posTrackX = v0data[2].posTrackX


(* C26 as stated: at every fitter.process call the field of the fitter has  *)
(* been set by initCCDB for the run of the collision being processed,       *)
(* whatever the run number of the first collision is: initCCDB leaves the   *)
(* run of the collision cached, and a fit finds the field set, to d_bz.     *)
C26_FieldSetBeforeFit ==
  [][ /\ (CCDBStep /\ pc' = "collision")
        => mRunNumber' = Head(bcs).runNumber
      /\ (LoopStep /\ fitter'.calls # fitter.calls)
        => /\ fitter.setBz > 0
           /\ fitter.bz = d_bz ]_vars

(* a step of StrangenessBuilder::init *)
StraInitStep == straBuilder.pc = "constructed" /\ straBuilder'.pc = "ready"

(* what the description of enabledTables promises for table t *)
Documented(t) ==
  \/ straBuilder.enabledTables[t] = 1
  \/ straBuilder.enabledTables[t] = -1 /\ t \in straSubscribed

(* C21 as stated: enabledTables behaves as documented: after init a table   *)
(* set to 1 is enabled, a table set to 0 is disabled and a table left at -1 *)
(* is enabled when a device of the workflow needs it; so with the V0 table  *)
(* left at -1 and needed, dataProcess builds the V0s of a data frame.       *)
C21_EnabledTablesAsDocumented ==
  [][ /\ StraInitStep
        => \A t \in TableIndex :
             (straBuilder'.mEnabledTables[t] # 0) <=> Documented(t)
      /\ (/\ DataStep
          /\ df'.bcs > 0
          /\ straBuilder.enabledTables[kV0CoresBase] = -1
          /\ kV0CoresBase \in straSubscribed)
        => straHelper'.nBuildV0Candidate
             = straHelper.nBuildV0Candidate + df'.v0s ]_vars

---------------------------------------------------------------------------
(* Properties of the straRecoStudy *)

(* a call of the process function p *)
RecoStep(p) == nRecoCalls' = nRecoCalls - 1 /\ recoCall'.process = p

(* the collision of the call passes the event selection *)
RecoSelected ==
  /\ passesSel8(recoStudy.opt, recoCall'.collision)
  /\ passesPosZ(recoStudy.opt, recoCall'.collision)

(* the cascades of the call of species p that have an MC particle inside    *)
(* the rapidity window and a V0 that was built                              *)
Examinable(p) ==
  { k \in DOMAIN recoCall'.Cascades :
      LET casc == recoCall'.Cascades[k]
      IN /\ casc.hasMC
         /\ ~ (Abs(casc.y) > 500)
         /\ casc.hasV0Data
         /\ casc.pdgCode = p }

C28_EventCountersFlushedEveryCall ==
  [][ RecoStep("processV0")
      => /\ \A ii \in 0 .. (kEvSelAllSteps - 1) : recoStudy'.evselstats[ii] = 0
         /\ recoStudy'.histos.hEventSelection[kEvSelAll]
              = recoStudy.histos.hEventSelection[kEvSelAll] + 1
         /\ recoStudy'.histos.hEventSelection[kEvSelBool]
              <= recoStudy'.histos.hEventSelection[kEvSelAll]
         /\ recoStudy'.histos.hEventSelection[kEvSelVtxZ]
              <= recoStudy'.histos.hEventSelection[kEvSelBool] ]_vars

---------------------------------------------------------------------------
(* Properties of the lambdakzeroPreselector *)

(* a call of processBuildValiddEdx *)
ValiddEdxStep ==
  /\ nPreselCalls' = nPreselCalls - 1
  /\ preselCall'.process = "processBuildValiddEdx"

(* the hypotheses of the six a V0 is flagged with by checkdEdx *)
Flagged(v) ==
  LET f == checkdEdx(preselector.opt, v)
  IN { h \in {"lIsGamma", "lIsK0Short", "lIsLambda", "lIsAntiLambda",
              "lIsHypertriton", "lIsAntiHypertriton"} : f[h] }

(* C29 as stated: checkTrackQuality treats every flag it is given: for a    *)
(* candidate flagged only as anti-hypertriton lIsInteresting is true        *)
(* exactly when the negative track has at least dTPCNCrossedRows crossed    *)
(* rows and the positive track has too or dPreselectOnlyBaryons is set;     *)
(* for a candidate without any flag it is false.                            *)
C29_EveryFlagTreated ==
  [][ ValiddEdxStep =>
        \A k \in DOMAIN preselCall'.v0table :
          LET v == preselCall'.v0table[k]
              o == preselector.opt
              lIsQualityInteresting ==
                checkTrackQuality(o, v, "lIsGamma" \in Flagged(v),
                  "lIsK0Short" \in Flagged(v), "lIsLambda" \in Flagged(v),
                  "lIsAntiLambda" \in Flagged(v),
                  "lIsHypertriton" \in Flagged(v),
                  "lIsAntiHypertriton" \in Flagged(v))
          IN /\ Flagged(v) = {"lIsAntiHypertriton"}
                  => /\ lIsQualityInteresting <=>
                          /\ v.negTrack.tpcNClsCrossedRows >= o.dTPCNCrossedRows
                          /\ \/ v.posTrack.tpcNClsCrossedRows >= o.dTPCNCrossedRows
                             \/ o.dPreselectOnlyBaryons
                     /\ preselector'.v0tags[k].isInteresting
                          = lIsQualityInteresting
             /\ Flagged(v) = {}
                  => /\ ~ lIsQualityInteresting
                     /\ ~ preselector'.v0tags[k].isInteresting ]_vars

---------------------------------------------------------------------------
(* Properties of the groupingBenchmarkPresliceUnsorted *)

(* a call of process: benchDF is the data frame given before, benchDF' the  *)
(* one given now                                                            *)
BenchStep == nBenchDFs' = nBenchDFs - 1

(* this data frame is empty and directly succeeds a filled one *)
EmptyAfterFilled ==
  /\ bench.atDF > 0
  /\ benchDF.collisions > 0
  /\ benchDF'.collisions = 0

(* C30 as stated: a timing entry (histograms filled, atFilledDF             *)
(* incremented, clock restarted) is recorded only for an empty data frame   *)
(* that directly succeeds a filled one, with the collision and V0 counts of *)
(* that filled data frame; atDF counts the calls.                           *)
C30_EntryPerFilledDF ==
  [][ BenchStep =>
        /\ bench'.atDF = bench.atDF + 1
        /\ IF EmptyAfterFilled
           THEN /\ bench'.atFilledDF = bench.atFilledDF + 1
                /\ bench'.previous = benchNow
                /\ bench'.histos =
                     Append(bench.histos,
                            [atFilledDF |-> bench.atFilledDF,
                             hCollisionsVsDF |-> benchDF.collisions,
                             hV0sVsDF |-> benchDF.V0s,
                             hTimeVsDF |-> benchNow - bench.previous])
           ELSE /\ bench'.atFilledDF = bench.atFilledDF
                /\ bench'.histos = bench.histos ]_vars

====
